---- MODULE Spec2Model ----
(***************************************************************************)
(* Model of the TeXnous parser repository: the generic tree (Tree,         *)
(* Tree.Node), the syntax-tree token positions (SyntaxTree.Token) and the  *)
(* tokenizing parser (Parser, LatexParser).                                *)
(***************************************************************************)
EXTENDS Integers, Sequences, FiniteSets, TLC

\* ------------------------------------------------------------------------
\* Bounds
\* ------------------------------------------------------------------------
\* number of Tree.Node objects that exist
MaxNodes == 3
\* the source length a token is given
TokenLength == 2
\* the source shift a token is given
TokenShift == 1
\* the number of fragments a source text is put together from, at most
MaxFragments == 3
\* the number, at most, of those fragments that make the parser parse a token
\* inside a token
MaxNesting == 1

\* ------------------------------------------------------------------------
\* Values
\* ------------------------------------------------------------------------
\* the JavaScript null object reference (no parent node)
Null == 0
\* an omitted (undefined) numeric argument, and a null number
Undefined == 0 - 1

Nodes == 1 .. MaxNodes

\* child indices and cover counts a caller passes: a receiver other than the
\* node has at most MaxNodes - 2 children to cover, so these reach past the
\* end of every list but the longest
IndexArgs == 0 .. (MaxNodes - 2)

VARIABLES
    children,     \* node -> its _childNodes list (the prototype's [] when none)
    parent,       \* node -> its parentNode (Null: the prototype's default)
    subtreeSize,  \* node -> its subtreeSize (1: the prototype's default)
    treeRoot,     \* the nodes that own a "tree" property (roots of a Tree)
    lastOp,       \* the last call made and what it returned or raised
    sourceLength, \* token -> its _sourceLength (Undefined: the default null)
    sourceShift,  \* token -> its _sourceShift (0: the prototype's default)
    context,      \* the parsing context of the parse call in progress
    tokens,       \* the "tokens" list of that parse call
    spans,        \* per token of the list: the offsets at which its step
                  \* started, began the token (comments skipped) and ended
    running,      \* where the parse call is: idle, parsing, or how it ended
    call,         \* the call of another method of the parser or of a context
                  \* that is followed on its own: the method, the context it
                  \* works on, and what it has done or returned so far
    latexSyntax   \* a LatexSyntax object: its _symbols, _commands and
                  \* _environments, and the packages loaded into it

treeVars == <<children, parent, subtreeSize, treeRoot>>
tokenVars == <<sourceLength, sourceShift>>
parserVars == <<context, tokens, spans, running, call, latexSyntax>>
vars == <<children, parent, subtreeSize, treeRoot, lastOp, sourceLength, sourceShift,
          context, tokens, spans, running, call, latexSyntax>>

\* ------------------------------------------------------------------------
\* Helpers translated from the code
\* ------------------------------------------------------------------------
Min(a, b) == IF a < b THEN a ELSE b

RECURSIVE SumSizes(_, _)
\* the running sum "subtreeSize += nodeChildNode.subtreeSize" over a list
SumSizes(size, list) ==
    IF list = <<>> THEN 0 ELSE size[Head(list)] + SumSizes(size, Tail(list))

\* 0-based Array.prototype.indexOf, -1 on a miss
IndexOf(list, x) ==
    IF \E j \in 1 .. Len(list) : list[j] = x
    THEN (CHOOSE j \in 1 .. Len(list) :
              list[j] = x /\ \A k \in 1 .. (j - 1) : list[k] # x) - 1
    ELSE 0 - 1

\* Array.prototype.splice(start, deleteCount, ...items) for start >= 0:
\* start and deleteCount are clamped to the list
SpliceMoved(list, start, deleteCount, items) ==
    LET s == Min(start, Len(list))
        d == Min(deleteCount, Len(list) - s)
    IN  [list    |-> SubSeq(list, 1, s) \o SubSeq(list, s + d + 1, Len(list)) \o items,
         removed |-> SubSeq(list, s + 1, s + d)]

SpliceFront(list, start, deleteCount, items) ==
    LET s == Min(start, Len(list))
        d == Min(deleteCount, Len(list) - s)
    IN  [list    |-> items \o SubSeq(list, 1, s) \o SubSeq(list, s + d + 1, Len(list)),
         removed |-> SubSeq(list, s + 1, s + d)]

SpliceKeep(list, start, deleteCount, items) ==
    LET s == Min(start, Len(list))
        d == Min(deleteCount, Len(list) - s)
    IN  [list    |-> SubSeq(list, 1, s) \o items \o SubSeq(list, s + 1, Len(list)),
         removed |-> SubSeq(list, s + 1, s + d)]

Splice(list, start, deleteCount, items) ==
    LET s == Min(start, Len(list))
        d == Min(deleteCount, Len(list) - s)
    IN  [list    |-> SubSeq(list, 1, s) \o items \o SubSeq(list, s + d + 1, Len(list)),
         removed |-> SubSeq(list, s + 1, s + d)]

SeqRange(list) == { list[j] : j \in 1 .. Len(list) }

SetParentsSkipped(par, list, p) == par

\* forEach(nodeChildNode => defineProperty(nodeChildNode, "parentNode", p))
SetParents(par, list, p) ==
    LET moved == SeqRange(list)
    IN  [n \in Nodes |-> IF n \in moved THEN p ELSE par[n]]

RECURSIVE WalkEnds(_, _, _)
\* does "for (p = start; p; p = p.parentNode)" end?  It cannot when the
\* parent links from start run into a cycle.
WalkEnds(par, start, fuel) ==
    IF start = Null THEN TRUE
    ELSE IF fuel = 0 THEN FALSE
    ELSE WalkEnds(par, par[start], fuel - 1)

RECURSIVE WalkSet(_, _, _)
\* the nodes that loop visits
WalkSet(par, start, fuel) ==
    IF start = Null \/ fuel = 0 THEN {}
    ELSE {start} \cup WalkSet(par, par[start], fuel - 1)

UpdateAncestorsParentOnly(size, par, start, delta) ==
    [n \in Nodes |-> IF n = start THEN size[n] + delta ELSE size[n]]

\* the loop over all the parent nodes, adding delta to each subtreeSize
UpdateAncestors(size, par, start, delta) ==
    LET visited == WalkSet(par, start, MaxNodes)
    IN  [n \in Nodes |-> IF n \in visited THEN size[n] + delta ELSE size[n]]

IsKeyRootLastChild(n) ==
    \/ parent[n] = Null
    \/ children[parent[n]] = <<>>
    \/ n # children[parent[n]][Len(children[parent[n]])]

\* get isKeyRoot(): parentNode === null || this !== parentNode._childNodes[0]
IsKeyRoot(n) ==
    \/ parent[n] = Null
    \/ children[parent[n]] = <<>>
    \/ n # children[parent[n]][1]

InsertChildNodeRejectsNoChildTest(node) ==
    \/ parent[node] # Null
    \/ node \in treeRoot

\* the tests insertChildNode makes before it changes anything
InsertChildNodeRejects(node) ==
    \/ parent[node] # Null
    \/ node \in treeRoot
    \/ children[node] # <<>>

InsertChildSubtreeRejectsNothing(node) == FALSE

\* the tests insertChildSubtree makes before it changes anything
InsertChildSubtreeRejects(node) ==
    \/ parent[node] # Null
    \/ node \in treeRoot

ChildIndexOfByPosition(self, node, index) ==
    IF node = Null
    THEN IF index < Len(children[self]) THEN index ELSE Undefined
    ELSE IF IndexOf(children[self], node) >= 0
         THEN IndexOf(children[self], node) ELSE Undefined

\* childIndex(node): the 0-based index of a child given as an index or as a
\* node, Undefined for the returned null
ChildIndexOf(self, node, index) ==
    IF node = Null
    THEN IF index < Len(children[self]) THEN index ELSE Undefined
    ELSE IF parent[node] = self THEN IndexOf(children[self], node) ELSE Undefined

\* the record of a call: moved counts the children the call gave a new parent
Call(op, self, node, index, cover, result, ret, moved) ==
    [op |-> op, self |-> self, node |-> node, index |-> index, cover |-> cover,
     result |-> result, ret |-> ret, moved |-> moved]

\* ------------------------------------------------------------------------
\* Source texts: sequences of one-character strings
\* ------------------------------------------------------------------------
\* a value that may be null: <<>> is null, <<x>> is x
None == <<>>
Some(x) == <<x>>

\* "let name = value": the value is computed once and named in what follows
Bind(value, Body(_)) == Body(value)

\* the characters of the classes the regular expressions of the parser use,
\* as far as the source texts contain them
Letters == {"a", "b", "d", "e", "g", "i", "n"}
Digits == {"0", "1", "2", "3", "4", "5", "6", "7", "8", "9"}
\* [A-Za-z@]
NameCharacters == Letters \cup {"@"}
\* [\w@]
WordCharacters == Letters \cup Digits \cup {"_", "@"}
\* \s
SpaceCharacters == {" ", "\t", "\n", "\r"}

\* the pieces the source texts are put together from: those that make the
\* parser parse a token inside a token (an environment, a command with a
\* parameter, an opening bracket), and the others
NestingFragments ==
    { <<"\\", "b", "e", "g", "i", "n", "{", "d", "}">>,
      <<"\\", "a">>,
      <<"{">> }

PlainFragments ==
    { <<"\\", "e", "n", "d", "{", "d", "}">>,
      <<"[">>, <<"]">>, <<"}">>,
      <<"%">>, <<"%", "\n">>, <<"\n">>, <<" ">> }

RECURSIVE Texts(_, _)
\* the texts of at most n fragments, at most nesting of them nesting ones
Texts(n, nesting) ==
    IF n = 0 THEN {<<>>}
    ELSE Texts(n - 1, nesting)
         \cup {t \o f : t \in Texts(n - 1, nesting), f \in PlainFragments}
         \cup (IF nesting = 0 THEN {}
               ELSE {t \o f : t \in Texts(n - 1, nesting - 1), f \in NestingFragments})

Sources == Texts(MaxFragments, MaxNesting)

\* the longest of the texts that _parseSpaceToken is called for on its own
SpaceLength == 4

\* the texts of spaces, line breaks, comment marks and a letter
SpaceSources ==
    UNION {[1 .. n -> {" ", "\t", "\r", "\n", "%", "a"}] : n \in 0 .. SpaceLength}

SetMin(S) == CHOOSE x \in S : \A y \in S : x <= y
SetMax(S) == CHOOSE x \in S : \A y \in S : x >= y

\* source.startsWith(pattern, position), positions counted from 0
StartsWith(source, pattern, position) ==
    /\ position + Len(pattern) <= Len(source)
    /\ \A i \in 1 .. Len(pattern) : source[position + i] = pattern[i]

\* source.indexOf(pattern, position): the first occurrence at or after the
\* position, -1 if there is none
StringIndexOf(source, pattern, position) ==
    LET hits == {k \in position .. Len(source) : StartsWith(source, pattern, k)}
    IN  IF hits = {} THEN 0 - 1 ELSE SetMin(hits)

\* source.lastIndexOf(char, position): the last occurrence at or before the
\* position, the position clamped to 0 .. length - 1; -1 if there is none
LastIndexOf(source, char, position) ==
    LET start == IF position < 0 THEN 0
                 ELSE IF position > Len(source) - 1 THEN Len(source) - 1
                 ELSE position
        hits == {k \in 0 .. start : k < Len(source) /\ source[k + 1] = char}
    IN  IF hits = {} THEN 0 - 1 ELSE SetMax(hits)

\* the length of the longest run of characters of a set from a position on
SpanIn(source, position, chars) ==
    LET stops == {k \in position .. Len(source) - 1 : source[k + 1] \notin chars}
    IN  IF stops = {} THEN Len(source) - position ELSE SetMin(stops) - position

\* the length of the longest run of characters outside a set
SpanNotIn(source, position, chars) ==
    LET stops == {k \in position .. Len(source) - 1 : source[k + 1] \in chars}
    IN  IF stops = {} THEN Len(source) - position ELSE SetMin(stops) - position

\* the character at a position, "" where the source has none (undefined)
CharacterAt(source, position) ==
    IF position < Len(source) THEN source[position + 1] ELSE ""

\* ------------------------------------------------------------------------
\* Latex.State: the mode states
\* ------------------------------------------------------------------------
Modes == {"LIST", "MATH", "PICTURE", "TABLE", "TEXT", "VERTICAL"}

\* new Latex.State()
InitialModeStates == [mode \in Modes |-> mode = "TEXT"]

\* no mode states ({})
NoModeStates == [mode \in {} |-> TRUE]

\* state.update(modeStates) that stores nothing
StateUpdateNone(state, modeStates) == state

\* state.update(modeStates)
StateUpdate(state, modeStates) ==
    [mode \in Modes |-> IF mode \in DOMAIN modeStates THEN modeStates[mode]
                        ELSE state[mode]]

\* state.test(modeStates)
StateTest(state, modeStates) ==
    \A mode \in DOMAIN modeStates : state[mode] = modeStates[mode]

\* newModeStates[operand] = value
WithModeState(modeStates, operand, value) ==
    [mode \in DOMAIN modeStates \cup {operand} |->
        IF mode = operand THEN value ELSE modeStates[mode]]

\* ------------------------------------------------------------------------
\* LatexSyntax: the loaded definitions
\* ------------------------------------------------------------------------
\* a pattern component: a parameter index (number), a source inclusion
\* (string) or a place for space (null)
NumberComponent(index) == [type |-> "number", index |-> index, text |-> <<>>]
StringComponent(text) == [type |-> "string", index |-> 0, text |-> text]
NullComponent == [type |-> "null", index |-> 0, text |-> <<>>]

DigitValue(char) ==
    CASE char = "0" -> 0 [] char = "1" -> 1 [] char = "2" -> 2 [] char = "3" -> 3
      [] char = "4" -> 4 [] char = "5" -> 5 [] char = "6" -> 6 [] char = "7" -> 7
      [] char = "8" -> 8 [] char = "9" -> 9

RECURSIVE NumberOf(_)
\* Number(digits)
NumberOf(digits) ==
    IF digits = <<>> THEN 0
    ELSE 10 * NumberOf(SubSeq(digits, 1, Len(digits) - 1)) + DigitValue(digits[Len(digits)])

RECURSIVE PatternComponents(_, _)
\* pattern.match(/([ \t]+|#\d+|[^ \t#]+)/g) mapped to the components, from
\* a position of the pattern on
PatternComponents(pattern, position) ==
    IF position >= Len(pattern) THEN <<>>
    ELSE LET char == pattern[position + 1]
             nSpaces == SpanIn(pattern, position, {" ", "\t"})
             nDigits == SpanIn(pattern, position + 1, Digits)
             nOthers == SpanNotIn(pattern, position, {" ", "\t", "#"})
         IN  IF nSpaces > 0
             THEN <<NullComponent>> \o PatternComponents(pattern, position + nSpaces)
             ELSE IF char = "#"
             THEN IF nDigits > 0
                  THEN <<NumberComponent(
                            NumberOf(SubSeq(pattern, position + 2, position + 1 + nDigits)) - 1)>>
                       \o PatternComponents(pattern, position + 1 + nDigits)
                  ELSE PatternComponents(pattern, position + 1)
             ELSE <<StringComponent(SubSeq(pattern, position + 1, position + nOthers))>>
                  \o PatternComponents(pattern, position + nOthers)

\* new LatexSyntax.Parameter({ lexeme, operations })
Parameter(lexeme, operations) == [lexeme |-> lexeme, operations |-> operations]

\* new LatexSyntax.Symbol({ pattern, lexeme, modes, parameters, operations })
Symbol(pattern, lexeme, modes, parameters, operations) ==
    [ isCommand |-> FALSE, name |-> <<>>, lexeme |-> lexeme, modes |-> modes,
      parameters |-> parameters, operations |-> operations,
      patternComponents |-> PatternComponents(pattern, 0) ]

\* new LatexSyntax.Command({ name, pattern, lexeme, modes, parameters, operations })
Command(name, pattern, lexeme, modes, parameters, operations) ==
    [ isCommand |-> TRUE, name |-> name, lexeme |-> lexeme, modes |-> modes,
      parameters |-> parameters, operations |-> operations,
      patternComponents |-> PatternComponents(pattern, 0) ]

\* new LatexSyntax.Environment({ name, modes })
Environment(name, modes) == [name |-> name, modes |-> modes]

\* the first character of get pattern(): of the first component put back
\* into text ("#" for a parameter, " " for a space), "" for an empty pattern
PatternFirstChar(symbol) ==
    IF symbol.patternComponents = <<>> THEN ""
    ELSE LET first == symbol.patternComponents[1]
         IN  IF first.type = "number" THEN "#"
             ELSE IF first.type = "string" THEN first.text[1]
             ELSE " "

TextModes == [mode \in {"TEXT"} |-> TRUE]

\* the package the syntax is loaded with, each list in the priority
\* descending order
SyntaxPackage ==
    [ symbols |-> <<
        Symbol(<<"{", "#", "1", "}">>, Some("BRACKETS"), NoModeStates,
               <<Parameter(None, <<>>)>>, <<>>) >>,
      commands |-> <<
        Command(<<"a">>, <<"[", "#", "1", "]", "#", "2">>, None, TextModes,
                <<Parameter(None, <<>>), Parameter(None, <<>>)>>, <<>>),
        Command(<<"a">>, <<"#", "1">>, None, TextModes,
                <<Parameter(Some("RAW"), <<>>)>>, <<>>),
        Command(<<"d">>, <<>>, None, TextModes, <<>>, <<>>),
        Command(<<"e", "n", "d", "d">>, <<>>, None, TextModes, <<>>, <<>>) >>,
      environments |-> << Environment(<<"d">>, TextModes) >> ]

RECURSIVE Select(_, _, _, _)
\* the items of a list, in its order, that have a key and match the state
Select(items, keys, key, state) ==
    IF items = <<>> THEN <<>>
    ELSE (IF Head(keys) = key /\ StateTest(state, Head(items).modes)
          THEN <<Head(items)>> ELSE <<>>)
         \o Select(Tail(items), Tail(keys), key, state)

\* latexSyntax.symbols(state, patternFirstChar): loadPackage stores only the
\* symbols that have a pattern
Symbols(state, patternFirstChar) ==
    Bind(SyntaxPackage.symbols, LAMBDA symbols :
        Select(symbols, [i \in 1 .. Len(symbols) |-> PatternFirstChar(symbols[i])],
               patternFirstChar, state))

\* latexSyntax.commands(state, name)
Commands(state, name) ==
    Bind(SyntaxPackage.commands, LAMBDA commands :
        Select(commands, [i \in 1 .. Len(commands) |-> commands[i].name], name, state))

\* latexSyntax.environments(state, name) that knows no environment
EnvironmentsOfNone(state, name) ==
    Bind(SyntaxPackage.environments, LAMBDA environments :
        Select(environments, [i \in 1 .. Len(environments) |-> environments[i].name],
               <<"{">> \o name, state))

\* latexSyntax.environments(state, name)
Environments(state, name) ==
    Bind(SyntaxPackage.environments, LAMBDA environments :
        Select(environments, [i \in 1 .. Len(environments) |-> environments[i].name],
               name, state))

\* ------------------------------------------------------------------------
\* LatexSyntax as an object that packages are loaded into and unloaded
\* from.  A store (_symbols, _commands, _environments) is a function from
\* its own keys to lists of { item, packageName }, in the priority
\* increasing order.
\* ------------------------------------------------------------------------
\* the names that every store inherits from Object.prototype, being made by
\* "{}": of them the model keeps "constructor" (the function Object, of
\* length 1)
ConstructorName == <<"c", "o", "n", "s", "t", "r", "u", "c", "t", "o", "r">>
PrototypeNames == {ConstructorName}

\* new LatexSyntax(); "packages" lists the loaded packages in the order of
\* the loadPackage calls that returned, "error" is what the last call
\* raised and "loads" counts the loadPackage calls (none of the three is a
\* field of the object)
NewLatexSyntax ==
    [ _symbols |-> <<>>, _commands |-> <<>>, _environments |-> <<>>,
      packages |-> <<>>, error |-> None, loads |-> 0 ]

\* the key a store keeps an item under: symbol.pattern[0], command.name,
\* environment.name ("" and undefined are falsy: the item is not stored)
StoreKey(kind, item) ==
    IF kind = "_symbols"
    THEN IF PatternFirstChar(item) = "" THEN <<>> ELSE <<PatternFirstChar(item)>>
    ELSE item.name

\* (store[key] || (store[key] = [])).push({ item, packageName }): push is
\* no function of a function inherited from Object.prototype
StorePush(loading, key, item, packageName) ==
    IF key \in DOMAIN loading.store
    THEN [loading EXCEPT !.store[key] =
             Append(@, [item |-> item, packageName |-> packageName])]
    ELSE IF key \in PrototypeNames THEN [loading EXCEPT !.error = Some("TypeError")]
    ELSE [loading EXCEPT !.store =
             [k \in DOMAIN loading.store \cup {key} |->
                 IF k = key THEN <<[item |-> item, packageName |-> packageName]>>
                 ELSE loading.store[k]]]

RECURSIVE StoreLoad(_, _, _, _, _)
\* "for (let i = items.length - 1; i >= 0; --i)" of loadPackage from an index
\* (counted from 1) down: the store and the exception, if one was raised
StoreLoad(loading, kind, items, packageName, i) ==
    IF i = 0 \/ loading.error # None THEN loading
    ELSE StoreLoad(IF StoreKey(kind, items[i]) = <<>> THEN loading
                   ELSE StorePush(loading, StoreKey(kind, items[i]), items[i],
                                  packageName),
                   kind, items, packageName, i - 1)

\* loadPackage(packageName, syntaxPackage): an exception leaves what was
\* stored before it
LoadedPackage(syntax, packageName, syntaxPackage) ==
    LET symbols == StoreLoad([store |-> syntax._symbols, error |-> None], "_symbols",
                             syntaxPackage.symbols, packageName,
                             Len(syntaxPackage.symbols))
        commands == StoreLoad([store |-> syntax._commands, error |-> symbols.error],
                              "_commands", syntaxPackage.commands, packageName,
                              Len(syntaxPackage.commands))
        environments == StoreLoad([store |-> syntax._environments,
                                   error |-> commands.error],
                                  "_environments", syntaxPackage.environments,
                                  packageName, Len(syntaxPackage.environments))
    IN  [ _symbols |-> symbols.store, _commands |-> commands.store,
          _environments |-> environments.store,
          error |-> environments.error,
          loads |-> syntax.loads + 1,
          packages |-> IF environments.error # None THEN syntax.packages
                       ELSE Append(syntax.packages,
                                   [packageName |-> packageName,
                                    syntaxPackage |-> syntaxPackage]) ]

RECURSIVE Filter(_, _)
\* list.filter(syntaxItem => syntaxItem.packageName !== packageName)
Filter(list, packageName) ==
    IF list = <<>> THEN <<>>
    ELSE (IF Head(list).packageName # packageName THEN <<Head(list)>> ELSE <<>>)
         \o Filter(Tail(list), packageName)

\* the forEach of unloadPackage over the keys of a store: the filtered list
\* is stored, or the key is deleted when nothing is left
StoreUnload(store, packageName) ==
    [k \in {key \in DOMAIN store : Filter(store[key], packageName) # <<>>} |->
        Filter(store[k], packageName)]

\* unloadPackage(packageName)
UnloadedPackage(syntax, packageName) ==
    [syntax EXCEPT !._symbols = StoreUnload(@, packageName),
                   !._commands = StoreUnload(@, packageName),
                   !._environments = StoreUnload(@, packageName),
                   !.packages = Filter(@, packageName),
                   !.error = None]

RECURSIVE StoreFiltered(_, _, _)
\* "for (let i = items.length - 1; i >= 0; --i) if (state.test(item.modes))
\* filtered.push(item)" from an index (counted from 1) down
StoreFiltered(list, state, i) ==
    IF i = 0 THEN <<>>
    ELSE (IF StateTest(state, list[i].item.modes) THEN <<list[i].item>> ELSE <<>>)
         \o StoreFiltered(list, state, i - 1)

\* symbols(state, key), commands(state, key), environments(state, key) of a
\* store: for an inherited name the list read is the function Object, whose
\* length is 1 and whose element 0 is undefined, and reading its item raises
StoreItems(store, state, key) ==
    IF key \in DOMAIN store
    THEN [items |-> StoreFiltered(store[key], state, Len(store[key])), error |-> None]
    ELSE IF key \in PrototypeNames THEN [items |-> <<>>, error |-> Some("TypeError")]
    ELSE [items |-> <<>>, error |-> None]

\* ------------------------------------------------------------------------
\* LatexTree tokens as values: a token with its child tokens
\* ------------------------------------------------------------------------
\* a token just constructed: no child tokens, the prototype's subtreeSize,
\* _sourceShift and _sourceLength
NewToken(class, properties) ==
    [ class |-> class, properties |-> properties, childNodes |-> <<>>,
      subtreeSize |-> 1, sourceShift |-> 0, sourceLength |-> Undefined ]

\* self.insertChildSubtree(node) for a node just parsed (no parent, no tree)
\* and a self that is not yet the child of a token
TokenInsertChildSubtree(self, node) ==
    [self EXCEPT !.childNodes = Append(@, node),
                 !.subtreeSize = @ + node.subtreeSize]

\* ------------------------------------------------------------------------
\* Parser.Context and LatexParser.Context
\* ------------------------------------------------------------------------
\* new LatexParser.Context(source).  Three more fields record what the run
\* does with the object: every value stored to _sourceOffset with the
\* statement that stored it, the diagnostics callbacks invoked, and the
\* error that ended the run.
Context(source) ==
    [ source |-> source,
      sourceOffset |-> 0,
      sourceCuttingOffset |-> 0,
      state |-> InitialModeStates,
      stateStack |-> <<>>,
      token |-> None,
      stopLabel |-> None,
      latexLexeme |-> None,
      latexCommandName |-> None,
      latexParameter |-> None,
      latexEnvironmentName |-> None,
      comments |-> <<>>,
      offsetWrites |-> <<>>,
      messages |-> <<>>,
      error |-> None ]

\* a throw statement, or a loop that never ends ("NonTermination")
Raise(ctx, error) == [ctx EXCEPT !.error = Some(error)]

Failed(ctx) == ctx.error # None

\* this._sourceOffset = offset
StoreSourceOffset(ctx, offset, by) ==
    [ctx EXCEPT !.sourceOffset = offset,
                !.offsetWrites = Append(@, [offset |-> offset, by |-> by])]

\* set sourceOffset(offset): parseInt(offset, 10) is 0 for the offset 0
SetSourceOffset(ctx, offset) ==
    IF offset = 0 THEN Raise(ctx, "TypeError")
    ELSE IF offset < ctx.sourceOffset THEN Raise(ctx, "TypeError")
    ELSE IF offset > Len(ctx.source) THEN Raise(ctx, "TypeError")
    ELSE StoreSourceOffset(ctx, offset, "set")

MarkSourceCuttingOffsetKept(ctx) == ctx

MarkSourceCuttingOffsetAtStart(ctx) == [ctx EXCEPT !.sourceCuttingOffset = 0]

\* markSourceCuttingOffset()
MarkSourceCuttingOffset(ctx) ==
    [ctx EXCEPT !.sourceCuttingOffset = ctx.sourceOffset]

\* get sourceCharacter()
SourceCharacter(ctx) == CharacterAt(ctx.source, ctx.sourceOffset)

\* isAtSourceEnd()
IsAtSourceEnd(ctx) == ctx.sourceOffset >= Len(ctx.source)

\* a stop label: a string, or the regular expression /^\\end(?:{|\s|%)/
StringLabel(text) == [isRegExp |-> FALSE, text |-> text]
EndLabel == [isRegExp |-> TRUE, text |-> <<"\\", "e", "n", "d">>]

\* source.slice(offset).search(/^\\end(?:{|\s|%)/) === 0
EndLabelMatch(ctx) ==
    /\ StartsWith(ctx.source, EndLabel.text, ctx.sourceOffset)
    /\ CharacterAt(ctx.source, ctx.sourceOffset + 4) \in SpaceCharacters \cup {"{", "%"}

\* sourceProbe(pattern) for a label
SourceProbe(ctx, label) ==
    IF label.isRegExp THEN EndLabelMatch(ctx)
    ELSE StartsWith(ctx.source, label.text, ctx.sourceOffset)

\* sourceProbe(pattern, true) for a string found in the source or a label
\* that matches: "this._sourceOffset += pattern.length"
SourceSkip(ctx, length) ==
    StoreSourceOffset(ctx, ctx.sourceOffset + length, "probe")

\* sourceProbe(label, true): the context after the call
SourceProbeSkip(ctx, label) ==
    IF ~SourceProbe(ctx, label) THEN ctx
    ELSE SourceSkip(ctx, Len(label.text) + (IF label.isRegExp THEN 1 ELSE 0))

\* set stopLabel(stopLabel)
SetStopLabel(ctx, label) ==
    IF ctx.stopLabel = None THEN [ctx EXCEPT !.stopLabel = Some(label)]
    ELSE Raise(ctx, "ReferenceError")

\* clearStopLabel() that leaves the label
ClearStopLabelKept(ctx) == ctx

\* clearStopLabel()
ClearStopLabel(ctx) == [ctx EXCEPT !.stopLabel = None]

\* "if (context.stopLabel)": a label that is not null and not the empty string
HasStopLabel(ctx) ==
    ctx.stopLabel # None /\ (ctx.stopLabel[1].isRegExp \/ ctx.stopLabel[1].text # <<>>)

\* set latexLexeme(latexLexeme): null is no Latex.Lexeme option
SetLatexLexeme(ctx, lexeme) ==
    IF lexeme = None THEN Raise(ctx, "TypeError")
    ELSE IF ctx.latexLexeme = None THEN [ctx EXCEPT !.latexLexeme = lexeme]
    ELSE Raise(ctx, "ReferenceError")

\* set latexCommandName(latexCommandName)
SetLatexCommandName(ctx, name) ==
    IF ctx.latexCommandName = None THEN [ctx EXCEPT !.latexCommandName = Some(name)]
    ELSE Raise(ctx, "ReferenceError")

\* set latexParameter(latexParameter): null is no LatexSyntax.Parameter
SetLatexParameter(ctx, parameter) ==
    IF parameter = None THEN Raise(ctx, "TypeError")
    ELSE IF ctx.latexParameter = None THEN [ctx EXCEPT !.latexParameter = parameter]
    ELSE Raise(ctx, "ReferenceError")

\* set latexEnvironmentName(latexEnvironmentName)
SetLatexEnvironmentName(ctx, name) ==
    IF ctx.latexEnvironmentName = None
    THEN [ctx EXCEPT !.latexEnvironmentName = Some(name)]
    ELSE Raise(ctx, "ReferenceError")

\* backupState()
BackupState(ctx) == [ctx EXCEPT !.stateStack = Append(@, ctx.state)]

\* restoreState() that takes the initial state when nothing is backed up
RestoreStateToInitial(ctx) ==
    IF ctx.stateStack = <<>> THEN [ctx EXCEPT !.state = InitialModeStates]
    ELSE [ctx EXCEPT !.state = ctx.stateStack[Len(ctx.stateStack)],
                     !.stateStack = SubSeq(@, 1, Len(@) - 1)]

\* what restoreState() returns: true if there was a backed up state
RestoreStateReturns(ctx) == ctx.stateStack # <<>>

\* restoreState(): nothing to do on an empty stack (it returns false)
RestoreState(ctx) ==
    IF ctx.stateStack = <<>> THEN ctx
    ELSE [ctx EXCEPT !.state = ctx.stateStack[Len(ctx.stateStack)],
                     !.stateStack = SubSeq(@, 1, Len(@) - 1)]

RECURSIVE UpdateStateKeeping(_, _, _)
\* updateState whose END GROUP keeps the mode states not yet stored
UpdateStateKeeping(ctx, operations, newModeStates) ==
    IF operations = <<>>
    THEN [ctx EXCEPT !.state = StateUpdate(@, newModeStates)]
    ELSE LET operation == Head(operations)
         IN  IF operation.operand = "GROUP"
             THEN IF operation.directive = "BEGIN"
                  THEN UpdateStateKeeping(
                           BackupState([ctx EXCEPT !.state = StateUpdate(@, newModeStates)]),
                           Tail(operations), NoModeStates)
                  ELSE UpdateStateKeeping(RestoreState(ctx), Tail(operations), newModeStates)
             ELSE UpdateStateKeeping(ctx, Tail(operations),
                      WithModeState(newModeStates, operation.operand,
                                    operation.directive = "BEGIN"))

RECURSIVE UpdateStateFrom(_, _, _)
\* the forEach of updateState and the update that follows it
UpdateStateFrom(ctx, operations, newModeStates) ==
    IF operations = <<>>
    THEN [ctx EXCEPT !.state = StateUpdate(@, newModeStates)]
    ELSE LET operation == Head(operations)
         IN  IF operation.operand = "GROUP"
             THEN IF operation.directive = "BEGIN"
                  THEN UpdateStateFrom(
                           BackupState([ctx EXCEPT !.state = StateUpdate(@, newModeStates)]),
                           Tail(operations), NoModeStates)
                  ELSE UpdateStateFrom(RestoreState(ctx), Tail(operations), NoModeStates)
             ELSE UpdateStateFrom(ctx, Tail(operations),
                      WithModeState(newModeStates, operation.operand,
                                    operation.directive = "BEGIN"))

\* updateState(operations)
UpdateState(ctx, operations) == UpdateStateFrom(ctx, operations, NoModeStates)

CopyToButComments(this, target) ==
    [ source |-> this.source,
      sourceOffset |-> this.sourceOffset,
      sourceCuttingOffset |-> this.sourceCuttingOffset,
      state |-> this.state,
      stateStack |-> this.stateStack,
      token |-> this.token,
      stopLabel |-> this.stopLabel,
      latexLexeme |-> this.latexLexeme,
      latexCommandName |-> this.latexCommandName,
      latexParameter |-> this.latexParameter,
      latexEnvironmentName |-> this.latexEnvironmentName,
      comments |-> target.comments,
      offsetWrites |-> Append(target.offsetWrites,
                              [offset |-> this.sourceOffset, by |-> "copy"]),
      messages |-> target.messages,
      error |-> target.error ]

CopyToPastBackup(this, target) ==
    [this EXCEPT !.sourceOffset = this.sourceOffset + 1,
                 !.offsetWrites = Append(target.offsetWrites,
                                         [offset |-> this.sourceOffset + 1, by |-> "copy"]),
                 !.messages = target.messages,
                 !.error = target.error]

\* this.copy(target): every field of the target is overwritten with the
\* field of this context, _sourceOffset included
CopyTo(this, target) ==
    [ source |-> this.source,
      sourceOffset |-> this.sourceOffset,
      sourceCuttingOffset |-> this.sourceCuttingOffset,
      state |-> this.state,
      stateStack |-> this.stateStack,
      token |-> this.token,
      stopLabel |-> this.stopLabel,
      latexLexeme |-> this.latexLexeme,
      latexCommandName |-> this.latexCommandName,
      latexParameter |-> this.latexParameter,
      latexEnvironmentName |-> this.latexEnvironmentName,
      comments |-> this.comments,
      offsetWrites |-> Append(target.offsetWrites,
                              [offset |-> this.sourceOffset, by |-> "copy"]),
      messages |-> target.messages,
      error |-> target.error ]

RECURSIVE CountLines(_, _, _)
\* the loop of get sourcePosition(): 0 when it never ends, which is when
\* lastIndexOf returns the offset it was given
CountLines(source, lineBreakOffset, nLines) ==
    Bind(LastIndexOf(source, "\n", lineBreakOffset - 1), LAMBDA next :
        IF next < 0 THEN nLines
        ELSE IF next = lineBreakOffset THEN 0
        ELSE CountLines(source, next, nLines + 1))

\* get sourcePosition()
SourcePosition(ctx) ==
    IF ctx.sourceOffset <= 0 THEN [line |-> 1, char |-> 1]
    ELSE Bind(LastIndexOf(ctx.source, "\n", ctx.sourceOffset - 1),
              LAMBDA lineBreakOffset :
                 IF lineBreakOffset < 0
                 THEN [line |-> 1, char |-> ctx.sourceOffset + 1]
                 ELSE [line |-> CountLines(ctx.source, lineBreakOffset, 2),
                       char |-> ctx.sourceOffset - lineBreakOffset])

\* unknownSymbolCallback, unknownCommandCallback, unknownEnvironmentCallback
\* (the default handlers): the position of the context they are given is
\* taken and the message is written
DiagnosticsCallback(ctx, callback, at, argument) ==
    Bind(SourcePosition(at), LAMBDA position :
        IF position.line = 0 THEN Raise(ctx, "NonTermination")
        ELSE [ctx EXCEPT !.messages =
                 Append(@, [callback |-> callback, argument |-> argument,
                            position |-> position])])

\* ------------------------------------------------------------------------
\* LatexParser: the steps that do not parse a token inside
\* ------------------------------------------------------------------------
\* what a token parser returns: the context as it leaves it, and the token
\* or null
Result(ctx, token) == [context |-> ctx, token |-> token]

\* sourceMatch(/^%([^\n]*)/): a comment that leaves its line break
CommentMatchToLineEnd(ctx) ==
    IF SourceCharacter(ctx) # "%" THEN [length |-> 0, comment |-> <<>>]
    ELSE Bind(SpanNotIn(ctx.source, ctx.sourceOffset + 1, {"\n"}), LAMBDA nComment :
             [length |-> 1 + nComment,
              comment |-> SubSeq(ctx.source, ctx.sourceOffset + 2,
                                 ctx.sourceOffset + 1 + nComment)])

\* sourceMatch(/^%([^\n]*)(\n[ \t]*)?/): the length of the match (0 for no
\* match) and the comment string
CommentMatch(ctx) ==
    IF SourceCharacter(ctx) # "%" THEN [length |-> 0, comment |-> <<>>]
    ELSE Bind(SpanNotIn(ctx.source, ctx.sourceOffset + 1, {"\n"}), LAMBDA nComment :
             LET afterComment == ctx.sourceOffset + 1 + nComment
                 nBreak == IF CharacterAt(ctx.source, afterComment) = "\n"
                           THEN 1 + SpanIn(ctx.source, afterComment + 1, {" ", "\t"})
                           ELSE 0
             IN  [length |-> 1 + nComment + nBreak,
                  comment |-> SubSeq(ctx.source, ctx.sourceOffset + 2, afterComment)])

\* _parseCommentLine(context): the context after the call and the comment
\* or null
ParseCommentLine(ctx) ==
    Bind(CommentMatch(ctx), LAMBDA commentMatch :
        IF commentMatch.length = 0 THEN [context |-> ctx, comment |-> None]
        ELSE [context |->
                 SetSourceOffset([ctx EXCEPT !.comments = Append(@, commentMatch.comment)],
                                 ctx.sourceOffset + commentMatch.length),
              comment |-> Some(commentMatch.comment)])

RECURSIVE SkipComments(_)
\* "while (this._parseCommentLine(context)) {}": an empty comment string is
\* falsy and ends the loop as no comment does
SkipComments(ctx) ==
    Bind(ParseCommentLine(ctx), LAMBDA line :
        IF Failed(line.context) \/ line.comment = None \/ line.comment = Some(<<>>)
        THEN line.context
        ELSE SkipComments(line.context))

RECURSIVE ParseSpaceLoop(_, _, _)
\* the while loop of _parseSpaceToken
ParseSpaceLoop(ctx, isSpace, nLineBreaks) ==
    IF Failed(ctx) \/ IsAtSourceEnd(ctx)
    THEN [context |-> ctx, isSpace |-> isSpace, nLineBreaks |-> nLineBreaks]
    ELSE Bind(ParseCommentLine(ctx), LAMBDA line :
             IF line.comment # None
             THEN ParseSpaceLoop(line.context, isSpace, nLineBreaks)
             ELSE IF SourceCharacter(ctx) \in {" ", "\t", "\r"}
             THEN ParseSpaceLoop(SetSourceOffset(ctx, ctx.sourceOffset + 1),
                                 TRUE, nLineBreaks)
             ELSE IF SourceCharacter(ctx) = "\n"
             THEN ParseSpaceLoop(SetSourceOffset(ctx, ctx.sourceOffset + 1),
                                 TRUE, nLineBreaks + 1)
             ELSE [context |-> ctx, isSpace |-> isSpace, nLineBreaks |-> nLineBreaks])

\* _parseSpaceToken(context)
ParseSpaceToken(ctx) ==
    Bind(ParseSpaceLoop(ctx, FALSE, 0), LAMBDA loop :
        IF Failed(loop.context) \/ ~loop.isSpace THEN Result(loop.context, None)
        ELSE Result(loop.context,
                    Some(NewToken("SpaceToken", [lineBreakCount |-> loop.nLineBreaks]))))

\* get lexeme() that takes one line break for a paragraph separator
SpaceTokenLexemeOfBreak(token) ==
    IF token.properties.lineBreakCount < 1 THEN "SPACE" ELSE "PARAGRAPH_SEPARATOR"

\* LatexTree.SpaceToken: get lexeme()
SpaceTokenLexeme(token) ==
    IF token.properties.lineBreakCount <= 1 THEN "SPACE" ELSE "PARAGRAPH_SEPARATOR"

\* _parseSourceToken(context)
ParseSourceToken(ctx) ==
    IF ~HasStopLabel(ctx) THEN Result(Raise(ctx, "ReferenceError"), None)
    ELSE Bind(StringIndexOf(ctx.source, ctx.stopLabel[1].text, ctx.sourceOffset),
              LAMBDA stopLabelOffset :
         Bind(IF stopLabelOffset < 0
              THEN SubSeq(ctx.source, ctx.sourceOffset + 1, Len(ctx.source))
              ELSE SubSeq(ctx.source, ctx.sourceOffset + 1, stopLabelOffset),
              LAMBDA tokenSource :
         Bind(SetSourceOffset(ClearStopLabel(ctx), ctx.sourceOffset + Len(tokenSource)),
              LAMBDA moved :
             IF Failed(moved) THEN Result(moved, None)
             ELSE IF moved.latexLexeme # None
             THEN Result([moved EXCEPT !.latexLexeme = None],
                         Some(NewToken("SourceToken",
                                       [source |-> tokenSource,
                                        lexeme |-> moved.latexLexeme])))
             ELSE Result(Raise(moved, "TypeError"), None))))

RECURSIVE SkipGaps(_, _)
\* (?:\s|%[^\n]*\n)* from a position on: the position after it
SkipGaps(source, position) ==
    LET char == CharacterAt(source, position)
        afterComment == position + 1 + SpanNotIn(source, position + 1, {"\n"})
    IN  IF char \in SpaceCharacters THEN SkipGaps(source, position + 1)
        ELSE IF char = "%" /\ CharacterAt(source, afterComment) = "\n"
        THEN SkipGaps(source, afterComment + 1)
        ELSE position

\* sourceProbe(/^\\begin(?:\s|%[^\n]*\n)*{[A-Za-z@]+\*?}/)
BeginProbe(ctx) ==
    /\ StartsWith(ctx.source, <<"\\", "b", "e", "g", "i", "n">>, ctx.sourceOffset)
    /\ Bind(SkipGaps(ctx.source, ctx.sourceOffset + 6), LAMBDA bracket :
       Bind(SpanIn(ctx.source, bracket + 1, NameCharacters), LAMBDA nName :
           LET afterName == bracket + 1 + nName
               afterStar == IF CharacterAt(ctx.source, afterName) = "*"
                            THEN afterName + 1 ELSE afterName
           IN  /\ CharacterAt(ctx.source, bracket) = "{"
               /\ nName > 0
               /\ CharacterAt(ctx.source, afterStar) = "}"))

\* sourceProbe(/^\\[A-Za-z@]/)
CommandProbe(ctx) ==
    /\ SourceCharacter(ctx) = "\\"
    /\ CharacterAt(ctx.source, ctx.sourceOffset + 1) \in NameCharacters

\* sourceMatch(/^\\([A-Za-z@]+\*?)/): the length of the match (0 for no
\* match) and the name
CommandNameMatch(ctx) ==
    Bind(IF SourceCharacter(ctx) = "\\"
         THEN SpanIn(ctx.source, ctx.sourceOffset + 1, NameCharacters) ELSE 0,
         LAMBDA nName :
        LET nStar == IF CharacterAt(ctx.source, ctx.sourceOffset + 1 + nName) = "*"
                     THEN 1 ELSE 0
        IN  IF nName = 0 THEN [length |-> 0, name |-> <<>>]
            ELSE [length |-> 1 + nName + nStar,
                  name |-> SubSeq(ctx.source, ctx.sourceOffset + 2,
                                  ctx.sourceOffset + 1 + nName + nStar)])

\* sourceMatch(/^{([\w@]+\*?)}/): the length of the match (0 for no match)
\* and the name
EnvironmentNameMatch(ctx) ==
    Bind(IF SourceCharacter(ctx) = "{"
         THEN SpanIn(ctx.source, ctx.sourceOffset + 1, WordCharacters) ELSE 0,
         LAMBDA nName :
        LET nStar == IF CharacterAt(ctx.source, ctx.sourceOffset + 1 + nName) = "*"
                     THEN 1 ELSE 0
        IN  IF nName = 0 \/ CharacterAt(ctx.source, ctx.sourceOffset + 1 + nName + nStar) # "}"
            THEN [length |-> 0, name |-> <<>>]
            ELSE [length |-> 2 + nName + nStar,
                  name |-> SubSeq(ctx.source, ctx.sourceOffset + 2,
                                  ctx.sourceOffset + 1 + nName + nStar)])

\* _tokenParserCallback(context): the context after the comments are
\* skipped and the name of the callback, "null" for none
TokenParserCallback(ctx) ==
    IF Failed(ctx) THEN [context |-> ctx, callback |-> "null"]
    ELSE Bind(SkipComments(ctx), LAMBDA skipped :
        [context |-> skipped,
         callback |->
             IF Failed(skipped) THEN "null"
             ELSE IF skipped.latexCommandName # None THEN "_parseCommandToken"
             ELSE IF IsAtSourceEnd(skipped) THEN "null"
             ELSE IF skipped.latexParameter # None THEN "_parseParameterToken"
             ELSE IF HasStopLabel(skipped) THEN "_parseSourceToken"
             ELSE IF skipped.latexEnvironmentName # None THEN "_parseEnvironmentBodyToken"
             ELSE IF BeginProbe(skipped) THEN "_parseEnvironmentToken"
             ELSE IF CommandProbe(skipped) THEN "_parseCommandToken"
             ELSE "_parseSymbolToken"])

\* ------------------------------------------------------------------------
\* Parser and LatexParser: parse, _parseToken and the token parsers
\* ------------------------------------------------------------------------
RECURSIVE ParseLoop(_, _, _)
RECURSIVE PushToken(_, _, _)
RECURSIVE ParseToken(_)
RECURSIVE ParseSymbolToken(_)
RECURSIVE ParseUnknownSymbol(_, _)
RECURSIVE ParseUnknownCommand(_, _, _)
RECURSIVE ParseParameterValue(_, _)
RECURSIVE ParseEnvironmentParts(_)
RECURSIVE ParseCommandToken(_)
RECURSIVE ParseParameterToken(_)
RECURSIVE ParseEnvironmentToken(_)
RECURSIVE ParseEnvironmentBodyToken(_)
RECURSIVE ParsePatternsFrom(_, _, _)
RECURSIVE ParsePatternFrom(_, _, _)
RECURSIVE ParsePattern(_, _)

\* the two while loops of parse(context): until the end of the source for
\* no label, until the label otherwise; the context after the loop and the
\* tokens pushed
ParseLoop(ctx, stopLabel, pushed) ==
    IF \/ stopLabel = None /\ IsAtSourceEnd(ctx)
       \/ stopLabel # None /\ SourceProbe(ctx, stopLabel[1])
    THEN [context |-> ctx, tokens |-> pushed]
    ELSE PushToken(ParseToken(ctx), stopLabel, pushed)

\* "if (!token) break; parsedTokens.push(token)" and the rest of the loop
PushToken(parsed, stopLabel, pushed) ==
    IF parsed.token = None THEN [context |-> parsed.context, tokens |-> pushed]
    ELSE ParseLoop(parsed.context, stopLabel, Append(pushed, parsed.token[1]))

\* parse(context)
Parse(ctx) ==
    IF ctx.stopLabel = None THEN ParseLoop(ctx, None, <<>>)
    ELSE ParseLoop(ClearStopLabel(ctx), ctx.stopLabel, <<>>)

\* "return context.token" at the end of a token parser: the exception, if
\* one was raised, goes on instead
ReturnToken(ctx) == Result(ctx, IF Failed(ctx) THEN None ELSE ctx.token)

\* tokenParserCallback.call(this, context)
CallTokenParser(callback, ctx) ==
    CASE callback = "_parseCommandToken" -> ParseCommandToken(ctx)
      [] callback = "_parseParameterToken" -> ParseParameterToken(ctx)
      [] callback = "_parseSourceToken" -> ParseSourceToken(ctx)
      [] callback = "_parseEnvironmentBodyToken" -> ParseEnvironmentBodyToken(ctx)
      [] callback = "_parseEnvironmentToken" -> ParseEnvironmentToken(ctx)
      [] callback = "_parseSymbolToken" -> ParseSymbolToken(ctx)

\* the end of _parseToken, "parsed" being what the token parser returned and
\* "before" the context it was chosen in: the context token is put back;
\* for a token, the bound is marked, the token gets its length and shift
\* and becomes a child of the context token.  Both setters raise for a
\* negative number.
FinishToken(parsed, before) ==
    IF parsed.token = None
    THEN IF Failed(parsed.context) THEN parsed
         ELSE Result([parsed.context EXCEPT !.token = before.token], None)
    ELSE
    LET marked == MarkSourceCuttingOffset([parsed.context EXCEPT !.token = before.token])
        sourceLen == marked.sourceOffset - before.sourceOffset
        tokenSourceShift == before.sourceOffset - before.sourceCuttingOffset
        finished == [parsed.token[1] EXCEPT !.sourceLength = sourceLen,
                                            !.sourceShift = tokenSourceShift]
    IN  IF sourceLen < 0 \/ tokenSourceShift < 0
        THEN Result(Raise(marked, "TypeError"), None)
        ELSE IF before.token = None THEN Result(marked, Some(finished))
        ELSE Result([marked EXCEPT !.token =
                        Some(TokenInsertChildSubtree(before.token[1], finished))],
                    Some(finished))

\* _parseToken(context)
ParseToken(ctx) ==
    LET chosen == TokenParserCallback(ctx)
    IN  IF chosen.callback = "null" THEN Result(chosen.context, None)
        ELSE FinishToken(CallTokenParser(chosen.callback,
                                         MarkSourceCuttingOffset(chosen.context)),
                         chosen.context)

\* _parsePatterns(context, symbols) after a symbol of the list was tried,
\* "parsed" being what _parsePattern returned for it: a symbol that cannot
\* be parsed is followed by contextBackup.copy(context)
ParsePatternsFrom(parsed, contextBackup, symbols) ==
    IF parsed.token # None \/ Failed(parsed.context) THEN parsed
    ELSE IF symbols = <<>> THEN Result(CopyTo(contextBackup, parsed.context), None)
    ELSE ParsePatternsFrom(
             ParsePattern(CopyTo(contextBackup, parsed.context), Head(symbols)),
             contextBackup, Tail(symbols))

\* _parsePatterns(context, symbols)
ParsePatterns(ctx, symbols) ==
    IF symbols = <<>> THEN Result(ctx, None)
    ELSE ParsePatternsFrom(ParsePattern(ctx, Head(symbols)), ctx, Tail(symbols))

\* the for loop of _parsePattern(context, symbol) from a pattern component
\* on, and what follows the loop ("undefined" is the type read past the
\* last component)
ParsePatternFrom(ctx, symbol, iPatternComponent) ==
    LET type == IF iPatternComponent > Len(symbol.patternComponents) THEN "undefined"
                ELSE symbol.patternComponents[iPatternComponent].type
        hasEndLabel ==
            /\ iPatternComponent < Len(symbol.patternComponents)
            /\ symbol.patternComponents[iPatternComponent + 1].type = "string"
        index == symbol.patternComponents[iPatternComponent].index
        withParameter ==
            SetLatexParameter(ctx, IF index < Len(symbol.parameters)
                                   THEN Some(symbol.parameters[index + 1]) ELSE None)
        withLabel ==
            IF Failed(withParameter) \/ ~hasEndLabel THEN withParameter
            ELSE SetStopLabel(withParameter,
                     StringLabel(symbol.patternComponents[iPatternComponent + 1].text))
        parameterParsed == ParseToken(withLabel)
        skipped == SkipComments(ctx)
        spaceParsed == ParseSpaceToken(ctx)
    IN  CASE type = "undefined" ->
                 Bind(UpdateState(ctx, symbol.operations), LAMBDA updated :
                     Result(updated, updated.token))
          [] type = "number" ->
                 IF parameterParsed.token = None
                 THEN Result(parameterParsed.context, None)
                 ELSE ParsePatternFrom(parameterParsed.context, symbol,
                          IF hasEndLabel THEN iPatternComponent + 2
                          ELSE iPatternComponent + 1)
          [] type = "string" ->
                 IF Failed(skipped)
                    \/ ~StartsWith(skipped.source,
                                   symbol.patternComponents[iPatternComponent].text,
                                   skipped.sourceOffset)
                 THEN Result(skipped, None)
                 ELSE ParsePatternFrom(
                          SourceSkip(skipped,
                                     Len(symbol.patternComponents[iPatternComponent].text)),
                          symbol, iPatternComponent + 1)
          [] type = "null" ->
                 IF spaceParsed.token = None THEN Result(spaceParsed.context, None)
                 ELSE ParsePatternFrom(spaceParsed.context, symbol, iPatternComponent + 1)

\* _parsePattern(context, symbol)
ParsePattern(ctx, symbol) ==
    ParsePatternFrom(
        [ctx EXCEPT !.token =
            Some(NewToken(IF symbol.isCommand THEN "CommandToken" ELSE "SymbolToken",
                          [symbol |-> Some(symbol), pattern |-> <<>>, name |-> <<>>]))],
        symbol, 1)

\* _parseSymbolToken(context)
ParseSymbolToken(ctx) ==
    ParseUnknownSymbol(ParsePatterns(ctx, Symbols(ctx.state, SourceCharacter(ctx))),
                       SourceCharacter(ctx))

\* _parseSymbolToken(context) after the symbols of the syntax were tried,
\* "byPattern" being what _parsePatterns returned
ParseUnknownSymbol(byPattern, sourceCharacter) ==
        IF byPattern.token # None \/ Failed(byPattern.context) THEN byPattern
        ELSE
        Bind(ParseSpaceToken(byPattern.context), LAMBDA bySpace :
            IF bySpace.token # None \/ Failed(bySpace.context) THEN bySpace
            ELSE
        Bind(DiagnosticsCallback(bySpace.context, "unknownSymbol", bySpace.context,
                                 <<sourceCharacter>>),
             LAMBDA reported :
            IF Failed(reported) THEN Result(reported, None)
            ELSE
        Bind(SetSourceOffset(reported, reported.sourceOffset + 1), LAMBDA moved :
            IF Failed(moved) THEN Result(moved, None)
            ELSE Result(moved,
                        Some(NewToken("SymbolToken",
                                      [symbol |-> None, pattern |-> <<sourceCharacter>>,
                                       name |-> <<>>]))))))

\* _parseCommandToken(context)
ParseCommandToken(ctx) ==
    LET commandNameMatch == CommandNameMatch(ctx)
        commandName == IF ctx.latexCommandName = None THEN commandNameMatch.name
                       ELSE ctx.latexCommandName[1]
        named == IF ctx.latexCommandName = None
                 THEN SetSourceOffset(ctx, ctx.sourceOffset + commandNameMatch.length)
                 ELSE [ctx EXCEPT !.latexCommandName = None]
    IN  IF ctx.latexCommandName = None /\ commandNameMatch.length = 0
        THEN Result(ctx, None)
        ELSE IF Failed(named) THEN Result(named, None)
        ELSE ParseUnknownCommand(
                 ParsePatterns(named, Commands(named.state, commandName)),
                 ctx, commandName)

\* _parseCommandToken(context) after the commands of the syntax were tried,
\* "byPattern" being what _parsePatterns returned and "contextBackup" the
\* copy of the context made before the name was read
ParseUnknownCommand(byPattern, contextBackup, commandName) ==
        IF byPattern.token # None \/ Failed(byPattern.context) THEN byPattern
        ELSE
        Bind(DiagnosticsCallback(byPattern.context, "unknownCommand", contextBackup,
                                 commandName),
             LAMBDA reported :
            IF Failed(reported) THEN Result(reported, None)
            ELSE Result(reported,
                        Some(NewToken("CommandToken",
                                      [symbol |-> None, pattern |-> <<>>,
                                       name |-> commandName]))))

\* "new LatexTree.ParameterToken({ hasBrackets, hasSpacePrefix })"
ParameterToken(hasBrackets, hasSpacePrefix) ==
    NewToken("ParameterToken",
             [hasBrackets |-> hasBrackets, hasSpacePrefix |-> hasSpacePrefix])

\* _parseParameterToken(context)
ParseParameterToken(ctx) ==
    IF ctx.latexParameter = None THEN Result(ctx, None)
    ELSE
    ParseParameterValue(
            Bind(UpdateState([ctx EXCEPT !.latexParameter = None],
                             ctx.latexParameter[1].operations),
                 LAMBDA updated :
                IF HasStopLabel(updated)
                THEN [updated EXCEPT !.token = Some(ParameterToken(FALSE, FALSE))]
                ELSE
            Bind(ParseSpaceToken(updated), LAMBDA spaceParsed :
                IF Failed(spaceParsed.context) THEN spaceParsed.context
                ELSE IF StartsWith(spaceParsed.context.source, <<"{">>,
                                   spaceParsed.context.sourceOffset)
                THEN SetStopLabel(
                         [SourceSkip(spaceParsed.context, 1) EXCEPT !.token =
                             Some(ParameterToken(TRUE, spaceParsed.token # None))],
                         StringLabel(<<"}">>))
                ELSE [spaceParsed.context EXCEPT !.token =
                         Some(ParameterToken(FALSE, spaceParsed.token # None))])),
            ctx.latexParameter[1])

\* _parseParameterToken(context) from the parsing of the value on,
\* "prepared" being the context with the parameter token, past the opening
\* bracket if there is one
ParseParameterValue(prepared, parameter) ==
    LET inner ==
            IF prepared.stopLabel = None THEN ParseToken(prepared).context
            ELSE IF parameter.lexeme = None THEN Parse(prepared).context
            ELSE ParseToken(SetLatexLexeme(prepared, parameter.lexeme)).context
    IN  IF Failed(inner) THEN Result(inner, None)
        ELSE IF prepared.stopLabel = None THEN Result(inner, inner.token)
        ELSE ReturnToken(SourceProbeSkip(inner, prepared.stopLabel[1]))

\* _parseEnvironmentToken(context)
ParseEnvironmentToken(ctx) ==
    IF ~StartsWith(ctx.source, <<"\\", "b", "e", "g", "i", "n">>, ctx.sourceOffset)
    THEN Result(ctx, None)
    ELSE
    ParseEnvironmentParts(
            Bind(SourceSkip(ctx, 6), LAMBDA contextBackup :
            Bind(ParseSpaceToken(contextBackup).context, LAMBDA spaced :
            Bind(EnvironmentNameMatch(spaced), LAMBDA environmentNameMatch :
                IF Failed(spaced) \/ environmentNameMatch.length = 0
                THEN [context |-> spaced, environmentName |-> None]
                ELSE
            Bind(environmentNameMatch.name, LAMBDA environmentName :
            Bind(Environments(spaced.state, environmentName), LAMBDA environments :
            Bind(IF environments # <<>> THEN spaced
                 ELSE DiagnosticsCallback(spaced, "unknownEnvironment", contextBackup,
                                          environmentName),
                 LAMBDA reported :
                IF Failed(reported) THEN [context |-> reported, environmentName |-> None]
                ELSE
            Bind(SetSourceOffset(
                     [reported EXCEPT !.token =
                         Some(NewToken("EnvironmentToken",
                                       [environment |-> IF environments # <<>>
                                                        THEN Some(environments[1])
                                                        ELSE None,
                                        name |-> IF environments # <<>> THEN <<>>
                                                 ELSE environmentName]))],
                     reported.sourceOffset + environmentNameMatch.length),
                 LAMBDA named :
                IF Failed(named) THEN [context |-> named, environmentName |-> None]
                ELSE [context |-> named, environmentName |-> Some(environmentName)]))))))))

\* _parseEnvironmentToken(context) from the parsing of the begin command
\* on, "opened" being the context with the environment token, past the
\* environment name, and the name (None when there is no token to parse)
ParseEnvironmentParts(opened) ==
    LET environmentName == opened.environmentName[1]
        endLabel == <<"{">> \o environmentName \o <<"}">>
        beginParsed ==
            ParseToken(SetLatexCommandName(opened.context, environmentName)).context
        bodyParsed ==
            ParseToken(IF Failed(beginParsed) THEN beginParsed
                       ELSE SetLatexEnvironmentName(beginParsed, environmentName)).context
        endSpaced == ParseSpaceToken(SourceSkip(bodyParsed, 4)).context
    IN  IF opened.environmentName = None THEN Result(opened.context, None)
        ELSE IF Failed(bodyParsed) THEN Result(bodyParsed, None)
        ELSE IF ~StartsWith(bodyParsed.source, <<"\\", "e", "n", "d">>,
                            bodyParsed.sourceOffset)
        THEN Result(bodyParsed, bodyParsed.token)
        ELSE IF Failed(endSpaced) THEN Result(endSpaced, None)
        ELSE IF ~StartsWith(endSpaced.source, endLabel, endSpaced.sourceOffset)
        THEN Result(endSpaced, endSpaced.token)
        ELSE ReturnToken(
                 ParseToken(
                     SetLatexCommandName(SourceSkip(endSpaced, Len(endLabel)),
                                         <<"e", "n", "d">> \o environmentName)).context)

\* _parseEnvironmentBodyToken(context)
ParseEnvironmentBodyToken(ctx) ==
    IF ctx.latexEnvironmentName = None THEN Result(ctx, None)
    ELSE ReturnToken(
             Parse(SetStopLabel(
                       [ctx EXCEPT !.latexEnvironmentName = None,
                                   !.token = Some(NewToken("EnvironmentBodyToken",
                                                           [name |-> <<>>]))],
                       EndLabel)).context)

\* no call of a method is followed
NoCall == [method |-> "none"]

\* ------------------------------------------------------------------------
\* Initial state: MaxNodes nodes just constructed, no call made
\* ------------------------------------------------------------------------
Init ==
    /\ children = [n \in Nodes |-> <<>>]
    /\ parent = [n \in Nodes |-> Null]
    /\ subtreeSize = [n \in Nodes |-> 1]
    /\ treeRoot = {}
    /\ lastOp = Call("none", Null, Null, Undefined, Undefined, "none", Null, 0)
    /\ sourceLength = [n \in Nodes |-> Undefined]
    /\ sourceShift = [n \in Nodes |-> 0]
    /\ context = Context(<<>>)
    /\ tokens = <<>>
    /\ spans = <<>>
    /\ running = "idle"
    /\ call = NoCall
    /\ latexSyntax = NewLatexSyntax

\* ------------------------------------------------------------------------
\* Operations of Tree.Node and Tree.  lastOp keeps the arguments of a call
\* that changed the tree and of a query; of a rejected insertion it keeps the
\* node, of a removal that returned null only the operation and the result.
\* ------------------------------------------------------------------------
\* new Tree(rootNode)
NewTreeCall(root) ==
    IF parent[root] # Null \/ root \in treeRoot
    THEN /\ lastOp' = Call("newTree", Null, Null, Undefined, Undefined, "TypeError", Null, 0)
         /\ UNCHANGED treeVars
    ELSE /\ treeRoot' = treeRoot \cup {root}
         /\ lastOp' = Call("newTree", Null, root, Undefined, Undefined, "ok", Null, 0)
         /\ UNCHANGED <<children, parent, subtreeSize>>

NewTree == \E root \in Nodes : NewTreeCall(root) /\ UNCHANGED <<tokenVars, parserVars>>

\* self.insertChildNode(node, childIndex, childNodesToCover)
InsertChildNodeCall(self, node, childIndex, childNodesToCover) ==
    IF InsertChildNodeRejects(node)
    THEN /\ lastOp' = Call("insertChildNode", Null, node, Undefined, Undefined,
                           "TypeError", Null, 0)
         /\ UNCHANGED treeVars
    ELSE LET idx == IF childIndex = Undefined THEN Len(children[self]) ELSE childIndex
             cov == IF childNodesToCover = Undefined THEN 0 ELSE childNodesToCover
             sp  == Splice(children[self], idx, cov, <<node>>)
             c1  == [children EXCEPT ![self] = sp.list]
             s1  == [subtreeSize EXCEPT ![self] = @ + 1]
             s2  == UpdateAncestors(s1, parent, parent[self], 1)
             p1  == [parent EXCEPT ![node] = self]
             covered == sp.removed # <<>>
             c2  == IF covered THEN [c1 EXCEPT ![node] = sp.removed] ELSE c1
             p2  == IF covered THEN SetParents(p1, sp.removed, node) ELSE p1
             s3  == IF covered
                    THEN [s2 EXCEPT ![node] = 1 + SumSizes(s2, sp.removed)]
                    ELSE s2
         IN  \* the call returns only if the loop over the parents ends
             /\ WalkEnds(parent, parent[self], MaxNodes)
             /\ children' = c2
             /\ parent' = p2
             /\ subtreeSize' = s3
             /\ lastOp' = Call("insertChildNode", self, node, childIndex,
                               childNodesToCover, "ok", self, Len(sp.removed))
             /\ UNCHANGED treeRoot

\* a rejected call raises before it reads childIndex or childNodesToCover
InsertChildNode ==
    \E self \in Nodes, node \in Nodes :
        IF InsertChildNodeRejects(node)
        THEN InsertChildNodeCall(self, node, Undefined, Undefined)
             /\ UNCHANGED <<tokenVars, parserVars>>
        ELSE \E childIndex \in IndexArgs \cup {Undefined},
                childNodesToCover \in IndexArgs \cup {Undefined} :
                 /\ InsertChildNodeCall(self, node, childIndex, childNodesToCover)
                 /\ UNCHANGED <<tokenVars, parserVars>>

\* self.insertChildSubtree(node, childIndex)
InsertChildSubtreeCall(self, node, childIndex) ==
    IF InsertChildSubtreeRejects(node)
    THEN /\ lastOp' = Call("insertChildSubtree", Null, node, Undefined, Undefined,
                           "TypeError", Null, 0)
         /\ UNCHANGED treeVars
    ELSE LET idx == IF childIndex = Undefined THEN Len(children[self]) ELSE childIndex
             sp  == Splice(children[self], idx, 0, <<node>>)
             nodeSubtreeSize == subtreeSize[node]
             s1  == [subtreeSize EXCEPT ![self] = @ + nodeSubtreeSize]
             s2  == UpdateAncestors(s1, parent, parent[self], nodeSubtreeSize)
         IN  /\ WalkEnds(parent, parent[self], MaxNodes)
             /\ children' = [children EXCEPT ![self] = sp.list]
             /\ parent' = [parent EXCEPT ![node] = self]
             /\ subtreeSize' = s2
             /\ lastOp' = Call("insertChildSubtree", self, node, childIndex,
                               Undefined, "ok", self, 0)
             /\ UNCHANGED treeRoot

InsertChildSubtree ==
    \E self \in Nodes, node \in Nodes :
        IF InsertChildSubtreeRejects(node)
        THEN InsertChildSubtreeCall(self, node, Undefined)
             /\ UNCHANGED <<tokenVars, parserVars>>
        ELSE \E childIndex \in IndexArgs \cup {Undefined} :
                 /\ InsertChildSubtreeCall(self, node, childIndex)
                 /\ UNCHANGED <<tokenVars, parserVars>>

\* self.removeChildNode(arg), arg a node (index = Undefined) or an index
\* (node = Null)
RemoveChildNodeCall(self, node, index) ==
    LET nodeChildIndex == ChildIndexOf(self, node, index)
    IN  IF nodeChildIndex = Undefined
        THEN /\ lastOp' = Call("removeChildNode", Null, Null, Undefined, Undefined,
                               "null", Null, 0)
             /\ UNCHANGED treeVars
        ELSE LET x   == children[self][nodeChildIndex + 1]
                 sp  == Splice(children[self], nodeChildIndex, 1, children[x])
                 c1  == [children EXCEPT ![self] = sp.list]
                 p1  == SetParents(parent, children[x], self)
                 s1  == [subtreeSize EXCEPT ![self] =
                            IF sp.list # <<>> THEN @ - 1 ELSE 1]
                 s2  == UpdateAncestors(s1, p1, p1[self], 0 - 1)
             IN  /\ WalkEnds(p1, p1[self], MaxNodes)
                 /\ children' = [c1 EXCEPT ![x] = <<>>]
                 /\ parent' = [p1 EXCEPT ![x] = Null]
                 /\ subtreeSize' = [s2 EXCEPT ![x] = 1]
                 /\ lastOp' = Call("removeChildNode", self, node, index,
                                   Undefined, "node", x, Len(children[x]))
                 /\ UNCHANGED treeRoot

RemoveChildNode ==
    \E self \in Nodes, node \in Nodes \cup {Null}, index \in IndexArgs \cup {Undefined} :
        /\ (node = Null) # (index = Undefined)
        /\ RemoveChildNodeCall(self, node, index)
        /\ UNCHANGED <<tokenVars, parserVars>>

\* self.removeChildSubtree(arg), arg a node or an index
RemoveChildSubtreeCall(self, node, index) ==
    LET nodeChildIndex == ChildIndexOf(self, node, index)
    IN  IF nodeChildIndex = Undefined
        THEN /\ lastOp' = Call("removeChildSubtree", Null, Null, Undefined, Undefined,
                               "null", Null, 0)
             /\ UNCHANGED treeVars
        ELSE LET x   == children[self][nodeChildIndex + 1]
                 sp  == Splice(children[self], nodeChildIndex, 1, <<>>)
                 nodeSubtreeSize == subtreeSize[x]
                 s1  == [subtreeSize EXCEPT ![self] =
                            IF sp.list # <<>> THEN @ - nodeSubtreeSize ELSE 1]
                 s2  == UpdateAncestors(s1, parent, parent[self], 0 - nodeSubtreeSize)
             IN  /\ WalkEnds(parent, parent[self], MaxNodes)
                 /\ children' = [children EXCEPT ![self] = sp.list]
                 /\ parent' = [parent EXCEPT ![x] = Null]
                 /\ subtreeSize' = s2
                 /\ lastOp' = Call("removeChildSubtree", self, node, index,
                                   Undefined, "node", x, 0)
                 /\ UNCHANGED treeRoot

RemoveChildSubtree ==
    \E self \in Nodes, node \in Nodes \cup {Null}, index \in IndexArgs \cup {Undefined} :
        /\ (node = Null) # (index = Undefined)
        /\ RemoveChildSubtreeCall(self, node, index)
        /\ UNCHANGED <<tokenVars, parserVars>>

\* the errors self.childNode(node) can raise when it is given a node: the test
\* "node instanceof Node" names an identifier the module never binds, so it
\* raises a ReferenceError where no global Node exists; where one exists (a
\* DOM) a Tree.Node is no instance of it and the TypeError below the test is
\* raised
ChildNodeErrors == {"ReferenceError", "TypeError"}

\* self.childNode(arg), arg a node or an index
ChildNodeCall(self, node, index) ==
    /\ UNCHANGED treeVars
    /\ IF node = Null
       THEN IF index < Len(children[self])
            THEN lastOp' = Call("childNode", self, node, index, Undefined,
                                "node", children[self][index + 1], 0)
            ELSE lastOp' = Call("childNode", self, node, index, Undefined,
                                "null", Null, 0)
       ELSE \E error \in ChildNodeErrors :
                lastOp' = Call("childNode", self, node, index, Undefined, error, Null, 0)

ChildNode ==
    \E self \in Nodes, node \in Nodes \cup {Null}, index \in IndexArgs \cup {Undefined} :
        /\ (node = Null) # (index = Undefined)
        /\ ChildNodeCall(self, node, index)
        /\ UNCHANGED <<tokenVars, parserVars>>

\* self.childIndex(arg), arg a node or an index
ChildIndexCall(self, node, index) ==
    /\ UNCHANGED treeVars
    /\ LET i == ChildIndexOf(self, node, index)
       IN  IF i = Undefined
           THEN lastOp' = Call("childIndex", self, node, index, Undefined, "null", Null, 0)
           ELSE lastOp' = Call("childIndex", self, node, index, Undefined, "index", i, 0)

ChildIndex ==
    \E self \in Nodes, node \in Nodes \cup {Null}, index \in IndexArgs \cup {Undefined} :
        /\ (node = Null) # (index = Undefined)
        /\ ChildIndexCall(self, node, index)
        /\ UNCHANGED <<tokenVars, parserVars>>

\* the structural operations of the nodes
Next ==
    \/ InsertChildNode
    \/ InsertChildSubtree
    \/ RemoveChildNode
    \/ RemoveChildSubtree

Spec == Init /\ [][Next]_vars

\* the insertions, among nodes of which some are made roots of a Tree
NextRooted ==
    \/ NewTree
    \/ InsertChildNode
    \/ InsertChildSubtree

SpecRooted == Init /\ [][NextRooted]_vars

\* the queries, on the trees that subtree insertion and removal build
NextQuery ==
    \/ InsertChildSubtree
    \/ RemoveChildSubtree
    \/ ChildNode
    \/ ChildIndex

SpecQuery == Init /\ [][NextQuery]_vars

\* ------------------------------------------------------------------------
\* SyntaxTree.Token: the nodes as tokens with a source length and shift
\* ------------------------------------------------------------------------
RECURSIVE SumSpans(_)
\* "sourceOffset += neighborToken._sourceShift + neighborToken._sourceLength"
\* over the tokens of a list
SumSpans(list) ==
    IF list = <<>> THEN 0
    ELSE sourceShift[Head(list)] + sourceLength[Head(list)] + SumSpans(Tail(list))

\* the neighbor tokens the loop of get sourceOffset() passes before n
PrecedingTokens(n) ==
    SubSeq(children[parent[n]], 1, IndexOf(children[parent[n]], n))

RECURSIVE SourceOffsetOwnShiftOnly(_, _)
SourceOffsetOwnShiftOnly(n, fuel) ==
    IF parent[n] = Null \/ fuel = 0 THEN sourceShift[n]
    ELSE LET offset == SourceOffsetOwnShiftOnly(parent[n], fuel - 1)
         IN  IF offset = Undefined THEN Undefined ELSE offset + sourceShift[n]

RECURSIVE SourceOffset(_, _)
\* get sourceOffset(), Undefined for the returned null; fuel bounds the
\* recursion over the parent tokens
SourceOffset(n, fuel) ==
    IF parent[n] = Null \/ fuel = 0 THEN sourceShift[n]
    ELSE LET offset == SourceOffset(parent[n], fuel - 1)
             before == PrecedingTokens(n)
         IN  IF offset = Undefined THEN Undefined
             ELSE IF \E j \in 1 .. Len(before) : sourceLength[before[j]] = Undefined
                  THEN Undefined
                  ELSE offset + SumSpans(before) + sourceShift[n]

\* get sourceOffset() returns only if its recursion over the parents ends
SourceOffsetReturns(n) == WalkEnds(parent, n, MaxNodes)

\* contextToken.insertChildSubtree(token): a token is appended to the child
\* tokens of another
AttachToken ==
    \E self \in Nodes, node \in Nodes :
        /\ ~InsertChildSubtreeRejects(node)
        /\ InsertChildSubtreeCall(self, node, Undefined)
        /\ UNCHANGED <<tokenVars, parserVars>>

\* token.sourceLength = length.  The setter defines a read-only property, so
\* a length that is set cannot be set to another value (a TypeError, which
\* changes nothing).
SetSourceLength ==
    \E n \in Nodes :
        /\ sourceLength[n] = Undefined
        /\ sourceLength' = [sourceLength EXCEPT ![n] = TokenLength]
        /\ UNCHANGED <<treeVars, lastOp, sourceShift, parserVars>>

\* token.sourceShift = shift.  As for the length; assigning the present value
\* returns at once.
SetSourceShift ==
    \E n \in Nodes :
        /\ sourceShift[n] = 0
        /\ sourceShift' = [sourceShift EXCEPT ![n] = TokenShift]
        /\ UNCHANGED <<treeVars, lastOp, sourceLength, parserVars>>

NextToken ==
    \/ AttachToken
    \/ SetSourceLength
    \/ SetSourceShift

SpecToken == Init /\ [][NextToken]_vars

\* ------------------------------------------------------------------------
\* Parser.parse(source) in steps: one iteration of its loop at a time
\* ------------------------------------------------------------------------
\* latexParser.parse(source): the context is created, the list is empty
ParseCall ==
    /\ running = "idle"
    /\ \E source \in Sources : context' = Context(source)
    /\ tokens' = <<>>
    /\ spans' = <<>>
    /\ running' = "parsing"
    /\ UNCHANGED <<treeVars, lastOp, tokenVars, call, latexSyntax>>

\* one iteration of "while (!context.isAtSourceEnd())": _parseToken, then
\* the break for null or the push.  An error that _parseToken raises, or a
\* loop in it that never ends, ends the call without a returned list.
ParseStep ==
    /\ running = "parsing"
    /\ ~IsAtSourceEnd(context)
    /\ \E parsed \in {ParseToken(context)} :
           /\ context' = parsed.context
           /\ IF Failed(parsed.context)
              THEN /\ running' = parsed.context.error[1]
                   /\ UNCHANGED <<tokens, spans>>
              ELSE IF parsed.token = None
              THEN /\ running' = "returned"
                   /\ UNCHANGED <<tokens, spans>>
              ELSE /\ tokens' = Append(tokens, parsed.token[1])
                   /\ spans' = Append(spans,
                                  [start |-> context.sourceOffset,
                                   logged |-> Len(context.offsetWrites),
                                   begin |-> TokenParserCallback(context).context.sourceOffset,
                                   end |-> parsed.context.sourceOffset])
                   /\ UNCHANGED running
    /\ UNCHANGED <<treeVars, lastOp, tokenVars, call, latexSyntax>>

\* the loop condition fails: "return tokens"
ParseReturn ==
    /\ running = "parsing"
    /\ IsAtSourceEnd(context)
    /\ running' = "returned"
    /\ UNCHANGED <<treeVars, lastOp, tokenVars, context, tokens, spans, call, latexSyntax>>

NextParse ==
    \/ ParseCall
    \/ ParseStep
    \/ ParseReturn

SpecParse == Init /\ [][NextParse]_vars

\* ------------------------------------------------------------------------
\* LatexParser._parsePatterns(context, symbols) in steps: one candidate of
\* the list at a time
\* ------------------------------------------------------------------------
\* a context created for a source and moved to an offset by the setter
\* ("context.sourceOffset = offset"); 0 is the offset it is created with
ContextAt(source, offset) ==
    IF offset = 0 THEN Context(source) ELSE SetSourceOffset(Context(source), offset)

\* the call of _parsePatterns that _parseToken leads to for a context, if it
\* leads to one: the one of _parseSymbolToken, with the symbols of the
\* character at the offset, or the one of _parseCommandToken, the name
\* skipped, with the commands of the name
PatternsCalls(ctx) ==
    LET chosen == TokenParserCallback(ctx)
        marked == MarkSourceCuttingOffset(chosen.context)
        commandNameMatch == CommandNameMatch(marked)
        named == SetSourceOffset(marked, marked.sourceOffset + commandNameMatch.length)
    IN  IF chosen.callback = "_parseSymbolToken"
        THEN {[context |-> marked,
               symbols |-> Symbols(marked.state, SourceCharacter(marked))]}
        ELSE IF chosen.callback = "_parseCommandToken" /\ ~Failed(named)
        THEN {[context |-> named,
               symbols |-> Commands(named.state, commandNameMatch.name)]}
        ELSE {}

\* _parsePatterns is entered: "let contextBackup = context.copy()", no token
\* yet, the whole list to try
PatternsCall ==
    /\ call = NoCall
    /\ \E source \in Sources : \E offset \in 0 .. Len(source) :
       \E entry \in PatternsCalls(ContextAt(source, offset)) :
           call' = [method |-> "_parsePatterns", at |-> "some",
                    context |-> entry.context, contextBackup |-> entry.context,
                    symbols |-> entry.symbols, attempted |-> None, token |-> None]
    /\ UNCHANGED <<treeVars, lastOp, tokenVars, context, tokens, spans, running,
                 latexSyntax>>

\* one call of the function given to symbols.some: _parsePattern for the
\* next symbol; its token ends the loop, for null the backup is copied into
\* the context.  "attempted" keeps the context as the candidate left it.
PatternsTry ==
    /\ call.method = "_parsePatterns"
    /\ call.at = "some"
    /\ call.symbols # <<>>
    /\ \E parsed \in {ParsePattern(call.context, Head(call.symbols))} :
           call' = IF Failed(parsed.context)
                   THEN [call EXCEPT !.at = "raised", !.context = parsed.context]
                   ELSE IF parsed.token # None
                   THEN [call EXCEPT !.at = "returned", !.context = parsed.context,
                                     !.token = parsed.token]
                   ELSE [call EXCEPT !.context = CopyTo(call.contextBackup, parsed.context),
                                     !.attempted = Some(parsed.context),
                                     !.symbols = Tail(call.symbols)]
    /\ UNCHANGED <<treeVars, lastOp, tokenVars, context, tokens, spans, running,
                 latexSyntax>>

\* the list is used up: "return token", which is null
PatternsReturn ==
    /\ call.method = "_parsePatterns"
    /\ call.at = "some"
    /\ call.symbols = <<>>
    /\ call' = [call EXCEPT !.at = "returned"]
    /\ UNCHANGED <<treeVars, lastOp, tokenVars, context, tokens, spans, running,
                 latexSyntax>>

NextPatterns ==
    \/ PatternsCall
    \/ PatternsTry
    \/ PatternsReturn

SpecPatterns == Init /\ [][NextPatterns]_vars

\* ------------------------------------------------------------------------
\* LatexParser.Context.updateState(operations) called for a list of
\* operations
\* ------------------------------------------------------------------------
\* the longest list of operations
MaxOperations == 3

\* { directive, operand }: Latex.Directive.BEGIN or END, and a mode or
\* Latex.GROUP
Operations == [directive : {"BEGIN", "END"}, operand : {"GROUP", "MATH", "TEXT"}]

OperationLists == UNION {[1 .. n -> Operations] : n \in 0 .. MaxOperations}

\* the contexts the calls are made for: a new one, one in the mathematical
\* mode, and one in the mathematical mode that has backed up its first state
UpdatedContexts ==
    {Context(<<>>),
     [Context(<<>>) EXCEPT !.state = [mode \in Modes |-> mode = "MATH"]],
     [BackupState(Context(<<>>)) EXCEPT !.state = [mode \in Modes |-> mode = "MATH"]]}

\* context.updateState(operations)
UpdateStateCall ==
    /\ call = NoCall
    /\ \E ctx \in UpdatedContexts : \E operations \in OperationLists :
           call' = [method |-> "updateState", context |-> ctx,
                    operations |-> operations,
                    updated |-> UpdateState(ctx, operations)]
    /\ UNCHANGED <<treeVars, lastOp, tokenVars, context, tokens, spans, running,
                   latexSyntax>>

\* context.restoreState()
RestoreStateCall ==
    /\ call = NoCall
    /\ \E ctx \in UpdatedContexts :
           call' = [method |-> "restoreState", context |-> ctx,
                    restored |-> RestoreState(ctx),
                    returned |-> RestoreStateReturns(ctx)]
    /\ UNCHANGED <<treeVars, lastOp, tokenVars, context, tokens, spans, running,
                   latexSyntax>>

NextUpdateState == UpdateStateCall \/ RestoreStateCall

SpecUpdateState == Init /\ [][NextUpdateState]_vars

\* ------------------------------------------------------------------------
\* LatexSyntax: packages are loaded and unloaded, and the definitions are
\* asked for
\* ------------------------------------------------------------------------
\* the most loadPackage calls made
MaxLoads == 3

PackageNames == {"p", "q"}

MathModes == [mode \in {"MATH"} |-> TRUE]

\* a package whose definitions share keys with those of SyntaxPackage and
\* differ in the modes; its second symbol has no pattern
SecondPackage ==
    [ symbols |-> <<
        Symbol(<<"{", "}">>, None, MathModes, <<>>, <<>>),
        Symbol(<<>>, None, NoModeStates, <<>>, <<>>),
        Symbol(<<"{">>, None, NoModeStates, <<>>, <<>>) >>,
      commands |-> <<
        Command(<<"a">>, <<>>, None, [mode \in {"TEXT"} |-> FALSE], <<>>, <<>>),
        Command(<<"a">>, <<"{", "}">>, None, NoModeStates, <<>>, <<>>) >>,
      environments |-> <<
        Environment(<<"d">>, NoModeStates),
        Environment(<<"d">>, MathModes) >> ]

\* a package with a command of the name "constructor"
ThirdPackage ==
    [ symbols |-> << Symbol(<<"}">>, None, NoModeStates, <<>>, <<>>) >>,
      commands |-> <<
        Command(ConstructorName, <<>>, None, NoModeStates, <<>>, <<>>) >>,
      environments |-> << Environment(<<"d">>, TextModes) >> ]

SyntaxPackages == {SyntaxPackage, SecondPackage, ThirdPackage}

\* the states the definitions are asked for: the initial one and one of
\* the mathematical mode
SyntaxStates ==
    {InitialModeStates,
     [mode \in Modes |-> mode = "MATH"]}

\* the keys the definitions are asked for, of each store
SyntaxKeys(store) ==
    IF store = "_symbols" THEN {<<"{">>, <<"}">>, <<"[">>}
    ELSE {<<"a">>, <<"d">>, <<"b">>, ConstructorName}

\* latexSyntax.loadPackage(packageName, syntaxPackage); what a call returned
\* before is no longer followed
LoadPackage ==
    /\ latexSyntax.loads < MaxLoads
    /\ \E packageName \in PackageNames : \E syntaxPackage \in SyntaxPackages :
           latexSyntax' = LoadedPackage(latexSyntax, packageName, syntaxPackage)
    /\ call' = NoCall
    /\ UNCHANGED <<treeVars, lastOp, tokenVars, context, tokens, spans, running>>

\* latexSyntax.unloadPackage(packageName)
UnloadPackage ==
    /\ \E packageName \in PackageNames :
           latexSyntax' = UnloadedPackage(latexSyntax, packageName)
    /\ call' = NoCall
    /\ UNCHANGED <<treeVars, lastOp, tokenVars, context, tokens, spans, running>>

\* what is followed of a call of symbols, commands or environments: the
\* method, its arguments and what it returned or raised
SyntaxItemsCall(method, store, state, key) ==
    [method |-> method, state |-> state, key |-> key,
     returned |-> StoreItems(latexSyntax[store], state, key)]

\* latexSyntax.symbols(state, patternFirstChar)
SymbolsCall ==
    /\ \E state \in SyntaxStates : \E key \in SyntaxKeys("_symbols") :
           call' = SyntaxItemsCall("symbols", "_symbols", state, key)
    /\ UNCHANGED <<treeVars, lastOp, tokenVars, context, tokens, spans, running,
                   latexSyntax>>

\* latexSyntax.commands(state, name)
CommandsCall ==
    /\ \E state \in SyntaxStates : \E key \in SyntaxKeys("_commands") :
           call' = SyntaxItemsCall("commands", "_commands", state, key)
    /\ UNCHANGED <<treeVars, lastOp, tokenVars, context, tokens, spans, running,
                   latexSyntax>>

\* latexSyntax.environments(state, name)
EnvironmentsCall ==
    /\ \E state \in SyntaxStates : \E key \in SyntaxKeys("_environments") :
           call' = SyntaxItemsCall("environments", "_environments", state, key)
    /\ UNCHANGED <<treeVars, lastOp, tokenVars, context, tokens, spans, running,
                   latexSyntax>>

NextSyntax ==
    \/ LoadPackage
    \/ UnloadPackage
    \/ SymbolsCall
    \/ CommandsCall
    \/ EnvironmentsCall

SpecSyntax == Init /\ [][NextSyntax]_vars

\* ------------------------------------------------------------------------
\* LatexParser._parsePattern(context, symbol) called for a symbol whose
\* pattern has a place for space
\* ------------------------------------------------------------------------
\* a symbol with the pattern "a a": the components "a", null, "a"
SpacedSymbol == Symbol(<<"a", " ", "a">>, None, NoModeStates, <<>>, <<>>)

\* the call and what it returns: the context as it was and as it is left,
\* and the token or null
SpacedPatternCall ==
    /\ call = NoCall
    /\ \E source \in SpaceSources : \E offset \in 0 .. Len(source) :
           \E parsed \in {ParsePattern(ContextAt(source, offset), SpacedSymbol)} :
               call' = [method |-> "_parsePattern",
                        context |-> ContextAt(source, offset),
                        parsed |-> parsed.context,
                        token |-> parsed.token]
    /\ UNCHANGED <<treeVars, lastOp, tokenVars, context, tokens, spans, running,
                 latexSyntax>>

SpecSpacedPattern == Init /\ [][SpacedPatternCall]_vars

\* ------------------------------------------------------------------------
\* LatexParser._parseSpaceToken(context) called for a text and an offset
\* ------------------------------------------------------------------------
\* the call and what it returns: the context as it was, the context as it
\* is left, the token or null, and the lexeme of the token
SpaceTokenCall ==
    /\ call = NoCall
    /\ \E source \in SpaceSources : \E offset \in 0 .. Len(source) :
           \E parsed \in {ParseSpaceToken(ContextAt(source, offset))} :
               call' = [method |-> "_parseSpaceToken",
                        context |-> ContextAt(source, offset),
                        parsed |-> parsed.context,
                        token |-> parsed.token,
                        lexeme |-> IF parsed.token = None THEN None
                                   ELSE Some(SpaceTokenLexeme(parsed.token[1]))]
    /\ UNCHANGED <<treeVars, lastOp, tokenVars, context, tokens, spans, running,
                 latexSyntax>>

SpecSpace == Init /\ [][SpaceTokenCall]_vars

\* ------------------------------------------------------------------------
\* Parser.Context: the position of a context that was moved to an offset
\* ------------------------------------------------------------------------
\* "context.sourcePosition" for a source and an offset of it; the line 0
\* stands for a getter that never returns
SourcePositionCall ==
    /\ call = NoCall
    /\ \E source \in Sources : \E offset \in 0 .. Len(source) :
           call' = [method |-> "sourcePosition",
                    context |-> ContextAt(source, offset),
                    position |-> SourcePosition(ContextAt(source, offset))]
    /\ UNCHANGED <<treeVars, lastOp, tokenVars, context, tokens, spans, running,
                 latexSyntax>>

SpecPosition == Init /\ [][SourcePositionCall]_vars

\* ------------------------------------------------------------------------
\* Properties of the tree
\* ------------------------------------------------------------------------
\* how often x occurs in a list
Occurrences(list, x) == Cardinality({ j \in 1 .. Len(list) : list[j] = x })

StructuralOps ==
    {"insertChildNode", "insertChildSubtree", "removeChildNode", "removeChildSubtree"}

\* C1: after every successful structural call, every node's subtreeSize is
\* 1 plus the sum of the subtreeSize of its children (1 for a childless node).
C1_SubtreeSizeExact ==
    \A n \in Nodes : subtreeSize[n] = 1 + SumSizes(subtreeSize, children[n])

\* C2: a node with parent p occurs exactly once in p's child list, every node
\* in p's child list has parent p, and no node is in the child lists of two
\* different nodes.
C2_ParentChildConsistent ==
    /\ \A n \in Nodes :
           parent[n] # Null => Occurrences(children[parent[n]], n) = 1
    /\ \A p \in Nodes : \A j \in 1 .. Len(children[p]) : parent[children[p][j]] = p
    /\ \A p \in Nodes, q \in Nodes :
           p # q => SeqRange(children[p]) \cap SeqRange(children[q]) = {}

\* a removal has just promoted children, or an insertion has just covered some
C2_Witness ==
    /\ lastOp.op \in {"removeChildNode", "insertChildNode"}
    /\ lastOp.moved >= 1
    /\ \E n \in Nodes : parent[n] # Null /\ children[n] # <<>>

\* C3: isKeyRoot is true of every parent-less node, false of the node at the
\* first position of a child list and true of the node at every other
\* position, after every insertion and removal.
C3_KeyRootByPosition ==
    /\ \A n \in Nodes : parent[n] = Null => IsKeyRoot(n)
    /\ \A p \in Nodes : \A j \in 1 .. Len(children[p]) :
           IsKeyRoot(children[p][j]) <=> (j # 1)

\* a removal has promoted a child to the first position of the receiver's
\* list: the promoted child is no key root, the removed node is one again
C3_Witness ==
    /\ lastOp.op = "removeChildNode"
    /\ lastOp.moved >= 1
    /\ children[lastOp.self] # <<>>
    /\ ~IsKeyRoot(children[lastOp.self][1])
    /\ IsKeyRoot(lastOp.ret)

\* C4: an insertion of a node that has a parent or is the root of a tree (for
\* insertChildNode also: that has children) raises, and a call that raises
\* changes no child list, no parent link and no subtreeSize.
C4_RejectedInsertChangesNothing ==
    [][/\ lastOp'.op = "insertChildNode"
          => (\/ parent[lastOp'.node] # Null
              \/ lastOp'.node \in treeRoot
              \/ children[lastOp'.node] # <<>>
               => lastOp'.result = "TypeError")
       /\ lastOp'.op = "insertChildSubtree"
          => (parent[lastOp'.node] # Null \/ lastOp'.node \in treeRoot
               => lastOp'.result = "TypeError")
       /\ lastOp'.result = "TypeError"
          => UNCHANGED <<children, parent, subtreeSize>>]_vars

\* insertChildNode has rejected the root of a tree that has children
C4_Witness ==
    /\ lastOp.op = "insertChildNode"
    /\ lastOp.result = "TypeError"
    /\ lastOp.node \in treeRoot
    /\ children[lastOp.node] # <<>>

C7_MissReturnsNull ==
    lastOp.op \in {"childNode", "childIndex"} =>
        LET isChild ==
                IF lastOp.node = Null
                THEN lastOp.index < Len(children[lastOp.self])
                ELSE parent[lastOp.node] = lastOp.self
        IN  ~isChild => lastOp.result = "null"

\* ------------------------------------------------------------------------
\* Properties of the token positions
\* ------------------------------------------------------------------------
RECURSIVE TokenPath(_, _)
\* a token and its ancestors
TokenPath(n, fuel) ==
    IF n = Null \/ fuel = 0 THEN {} ELSE {n} \cup TokenPath(parent[n], fuel - 1)

\* the siblings in front of a token, none for a parent-less token
SiblingsBefore(n) ==
    IF parent[n] = Null THEN {}
    ELSE { children[parent[n]][j] : j \in 1 .. IndexOf(children[parent[n]], n) }

RECURSIVE SumOver(_, _)
SumOver(f, set) ==
    IF set = {} THEN 0
    ELSE LET x == CHOOSE y \in set : TRUE IN f[x] + SumOver(f, set \ {x})

\* the sum, over a token and its ancestors, of the own shift and of the shift
\* and length of every sibling in front
PathOffset(n) ==
    LET path == TokenPath(n, MaxNodes)
        span == [m \in Nodes |-> sourceShift[m] + sourceLength[m]]
        step == [a \in Nodes |-> sourceShift[a] + SumOver(span, SiblingsBefore(a))]
    IN  SumOver(step, path)

RECURSIVE TokensSpan(_)
\* the sum of sourceShift + sourceLength over a token list
TokensSpan(list) ==
    IF list = <<>> THEN 0
    ELSE TokensSpan(SubSeq(list, 1, Len(list) - 1))
         + list[Len(list)].sourceShift + list[Len(list)].sourceLength

\* where the k-th token of the list starts, counted as the test suite
\* counts: the spans of the tokens before it plus its own shift
TokenStart(k) == TokensSpan(SubSeq(tokens, 1, k - 1)) + tokens[k].sourceShift

\* C9: the tokens of the list that parse builds are in source order and do
\* not overlap: the k-th token starts at the running sum of sourceShift +
\* sourceLength of the tokens before it plus its own sourceShift, this start
\* is the context offset at which its step began once the comments were
\* skipped, its sourceLength is the offset the step consumed from there,
\* and the token ends within the source.
C9_TokensInSourceOrder ==
    \A k \in 1 .. Len(tokens) :
        /\ tokens[k].sourceShift >= 0
        /\ tokens[k].sourceLength >= 0
        /\ TokenStart(k) = spans[k].begin
        /\ tokens[k].sourceLength = spans[k].end - spans[k].begin
        /\ TokenStart(k) + tokens[k].sourceLength <= Len(context.source)

\* parse returned two tokens or more, a comment was skipped in front of the
\* second one
C9_Witness ==
    /\ running = "returned"
    /\ Len(tokens) >= 2
    /\ tokens[1].sourceLength > 0
    /\ tokens[2].sourceShift > 0
    /\ context.comments # <<>>

\* the offset the context had before the i-th value was stored to it
OffsetBefore(i) ==
    IF i = 1 THEN 0 ELSE context.offsetWrites[i - 1].offset

\* C10 as stated: during a parse the offset of the context that is advanced
\* never decreases, a failed candidate included.
C10_OffsetNeverDecreases ==
    \A i \in 1 .. Len(context.offsetWrites) :
        context.offsetWrites[i].offset >= OffsetBefore(i)

\* the values stored to the offset during the k-th step of the parse loop
StepWrites(k) ==
    { i \in 1 .. Len(context.offsetWrites) :
        /\ i > spans[k].logged
        /\ (k < Len(spans) => i <= spans[k + 1].logged) }

\* C10 amended: the offset of the context that is advanced is lowered only
\* by the copy of the backup context that follows a failed candidate, never
\* by the setter or a probe; a copy stores an offset the context had before,
\* no lower than the offset at which the step of the parse loop started; so
\* from one step of the parse loop to the next the offset never decreases.
C10_OffsetLoweredOnlyByRollback ==
    /\ \A i \in 1 .. Len(context.offsetWrites) :
          /\ context.offsetWrites[i].offset < OffsetBefore(i)
                => context.offsetWrites[i].by = "copy"
          /\ context.offsetWrites[i].by = "copy"
                => \E j \in 1 .. i :
                      OffsetBefore(j) = context.offsetWrites[i].offset
    /\ \A k \in 1 .. Len(spans) :
          /\ spans[k].start <= spans[k].begin
          /\ spans[k].begin <= spans[k].end
          /\ k > 1 => spans[k - 1].end = spans[k].start
          /\ \A i \in StepWrites(k) :
                context.offsetWrites[i].offset >= spans[k].start

\* a step other than the first lowered the offset by a rollback and still
\* produced a token
C10_Witness ==
    /\ running = "returned"
    /\ \E k \in 2 .. Len(spans) : \E i \in StepWrites(k) :
          /\ context.offsetWrites[i].by = "copy"
          /\ context.offsetWrites[i].offset < OffsetBefore(i)
          /\ spans[k].end > spans[k].start

\* the fields of a context object, without what the model records about
\* the run
ContextFields(ctx) ==
    [ source |-> ctx.source,
      sourceOffset |-> ctx.sourceOffset,
      sourceCuttingOffset |-> ctx.sourceCuttingOffset,
      state |-> ctx.state,
      stateStack |-> ctx.stateStack,
      token |-> ctx.token,
      stopLabel |-> ctx.stopLabel,
      latexLexeme |-> ctx.latexLexeme,
      latexCommandName |-> ctx.latexCommandName,
      latexParameter |-> ctx.latexParameter,
      latexEnvironmentName |-> ctx.latexEnvironmentName,
      comments |-> ctx.comments ]

\* C11: when a candidate fails to match, the context that the next
\* candidate is given, and the one the caller is left with when every
\* candidate failed, equals the context captured before the attempt in
\* every field: offset, cutting offset, mode flags, state stack, stop
\* label, pending command name, parameter, environment name and lexeme,
\* current token and stored comments.
C11_FailedCandidateRestoresContext ==
    (/\ call.method = "_parsePatterns"
     /\ call.attempted # None
     /\ call.at = "some" \/ (call.at = "returned" /\ call.token = None))
    => ContextFields(call.context) = ContextFields(call.contextBackup)

\* a candidate has failed after it moved the offset, replaced the current
\* token, set a pending parameter and stored a comment, and another
\* candidate follows
C11_Witness ==
    /\ call.method = "_parsePatterns"
    /\ call.at = "some"
    /\ call.symbols # <<>>
    /\ call.attempted # None
    /\ call.attempted[1].sourceOffset > call.contextBackup.sourceOffset
    /\ call.attempted[1].token # call.contextBackup.token
    /\ call.attempted[1].latexParameter # call.contextBackup.latexParameter
    /\ call.attempted[1].comments # call.contextBackup.comments

\* the token is the fallback of _parseSymbolToken for a character that no
\* symbol and no space matches
IsUnknownSymbolToken(token) ==
    token.class = "SymbolToken" /\ token.properties.symbol = None

\* every iteration of the parse loop that produced a token moved the offset
\* on by one character at least, and by one exactly for an unrecognized
\* character
StepsAdvance ==
    \A k \in 1 .. Len(tokens) :
        /\ spans[k].end > spans[k].start
        /\ IsUnknownSymbolToken(tokens[k])
              => /\ tokens[k].sourceLength = 1
                 /\ spans[k].end = spans[k].begin + 1

\* C12: parse terminates for every source: no step of it runs forever,
\* each iteration of the parse loop either stops or produces a token after
\* which the offset has advanced by one character at least, and an
\* unrecognized character yields a token that advances it by exactly one.
C12_ParseTerminates ==
    /\ running # "NonTermination"
    /\ StepsAdvance

\* C13: no source text makes parse raise an error: for every source the
\* call returns its token list.
C13_ParseNeverRaises ==
    running \notin {"TypeError", "ReferenceError"}

\* the offsets of the line breaks of a source strictly before an offset
LineBreaksBefore(source, offset) ==
    {k \in 0 .. offset - 1 : source[k + 1] = "\n"}

\* the 1-based position of an offset of a source: the line is 1 + the
\* number of line breaks strictly before the offset, the char is the offset
\* minus the index of the last line break before it (minus -1 when there is
\* none)
PositionAt(source, offset) ==
    LET breaks == LineBreaksBefore(source, offset)
    IN  [line |-> 1 + Cardinality(breaks),
         char |-> offset - (IF breaks = {} THEN 0 - 1 ELSE SetMax(breaks))]

\* C14: for every source and every offset from 0 to the source length,
\* sourcePosition returns (terminates with) the 1-based position of the
\* offset.
C14_SourcePosition ==
    call.method = "sourcePosition" =>
        call.position = PositionAt(call.context.source, call.context.sourceOffset)

\* how many times a diagnostics callback was invoked with an argument for
\* a position
Reports(callback, argument, position) ==
    Cardinality({i \in 1 .. Len(context.messages) :
                    context.messages[i] = [callback |-> callback, argument |-> argument,
                                           position |-> position]})

\* the token is the one _parseCommandToken makes for a name that no command
\* of the syntax matches
IsUnknownCommandToken(token) ==
    token.class = "CommandToken" /\ token.properties.symbol = None

\* every unrecognized command token of the list covers exactly the
\* backslash and the name, and the unknown-command callback was invoked for
\* the name with a context positioned at the backslash
UnknownCommandTokens ==
    \A k \in 1 .. Len(tokens) :
        IsUnknownCommandToken(tokens[k]) =>
            /\ tokens[k].sourceLength = 1 + Len(tokens[k].properties.name)
            /\ SubSeq(context.source, spans[k].begin + 2, spans[k].end)
                  = tokens[k].properties.name
            /\ context.source[spans[k].begin + 1] = "\\"
            /\ Reports("unknownCommand", tokens[k].properties.name,
                       PositionAt(context.source, spans[k].begin)) >= 1

\* C15: a command name of the source that no registered definition matches
\* yields one unrecognized command token that covers exactly the backslash
\* and the name, the unknown-command callback is invoked exactly once for
\* it, with a context positioned at the first character of the command, and
\* the parsing goes on right after the name (and does go on: the callback
\* returns).
C15_UnknownCommand ==
    /\ running # "NonTermination"
    /\ UnknownCommandTokens
    /\ \A k \in 1 .. Len(tokens) :
          IsUnknownCommandToken(tokens[k]) =>
              Reports("unknownCommand", tokens[k].properties.name,
                      PositionAt(context.source, spans[k].begin)) = 1

\* every unrecognized symbol token of the list holds the one character it
\* begins at, and the unknown-symbol callback was invoked for that character
\* with the line and column of an offset the token covers
UnknownSymbolTokens ==
    \A k \in 1 .. Len(tokens) :
        IsUnknownSymbolToken(tokens[k]) =>
            /\ Len(tokens[k].properties.pattern) = 1
            /\ context.source[spans[k].begin + 1] = tokens[k].properties.pattern[1]
            /\ \E offset \in spans[k].begin .. spans[k].end - 1 :
                  Reports("unknownSymbol", tokens[k].properties.pattern,
                          PositionAt(context.source, offset)) >= 1

\* C16: a character at the offset that is not whitespace and that no symbol
\* pattern matches yields an unrecognized symbol token of that one character,
\* the unknown-symbol callback is invoked exactly once with the 1-based line
\* and column of the character, and the offset advances by exactly one (and
\* the callback returns).
C16_UnknownSymbol ==
    /\ running # "NonTermination"
    /\ \A k \in 1 .. Len(tokens) :
          IsUnknownSymbolToken(tokens[k]) =>
              /\ tokens[k].sourceLength = 1
              /\ spans[k].end = spans[k].begin + 1
              /\ tokens[k].properties.pattern = <<context.source[spans[k].begin + 1]>>
              /\ Reports("unknownSymbol", tokens[k].properties.pattern,
                         PositionAt(context.source, spans[k].begin)) = 1

\* the source "\begin{d}\end{d}" of the registered environment d
BeginEndSource ==
    <<"\\", "b", "e", "g", "i", "n", "{", "d", "}", "\\", "e", "n", "d", "{", "d", "}">>

\* C17: for the source \begin{d}\end{d}, d being a registered environment,
\* parse returns exactly one environment token that spans the whole source;
\* its children are, in this order, the token of the begin command, an
\* environment body token without children and the token of the end
\* command; no diagnostics callback is invoked.
C17_EmptyEnvironment ==
    running = "returned" /\ context.source = BeginEndSource =>
        /\ Len(tokens) = 1
        /\ tokens[1].class = "EnvironmentToken"
        /\ tokens[1].properties.environment # None
        /\ spans[1].begin = 0 /\ spans[1].end = Len(BeginEndSource)
        /\ tokens[1].sourceLength = Len(BeginEndSource)
        /\ Len(tokens[1].childNodes) = 3
        /\ tokens[1].childNodes[1].class = "CommandToken"
        /\ tokens[1].childNodes[1].properties.symbol # None
        /\ tokens[1].childNodes[1].properties.symbol[1].name = <<"d">>
        /\ tokens[1].childNodes[2].class = "EnvironmentBodyToken"
        /\ tokens[1].childNodes[2].childNodes = <<>>
        /\ tokens[1].childNodes[3].class = "CommandToken"
        /\ tokens[1].childNodes[3].properties.symbol # None
        /\ tokens[1].childNodes[3].properties.symbol[1].name = <<"e", "n", "d", "d">>
        /\ context.messages = <<>>

\* parse has returned for the source \begin{d}\end{d}
C17_Witness ==
    running = "returned" /\ context.source = BeginEndSource

\* the token is an environment token that has no end command token
IsUnterminatedEnvironmentToken(token) ==
    /\ token.class = "EnvironmentToken"
    /\ ~(/\ Len(token.childNodes) = 3
         /\ token.childNodes[3].class = "CommandToken")

\* C18: when the body of an environment is followed by an end marker of
\* another environment, or by no end marker up to the end of the source, the
\* parser reports an unterminated environment and still returns the
\* environment token with the begin command and the body and without an end
\* command; nothing is raised.
C18_UnterminatedEnvironment ==
    \A k \in 1 .. Len(tokens) :
        IsUnterminatedEnvironmentToken(tokens[k]) =>
            /\ Len(tokens[k].childNodes) = 2
            /\ tokens[k].childNodes[1].class = "CommandToken"
            /\ tokens[k].childNodes[2].class = "EnvironmentBodyToken"
            /\ \E i \in 1 .. Len(context.messages) :
                  context.messages[i].callback = "unterminatedEnvironment"

\* the character at an offset (counted from 0) of a text belongs to a
\* comment that begins at "from" or later: a comment mark is at or before it
\* with no line break in between (the line break that ends the comment
\* belongs to it)
InComment(source, from, i) ==
    \E j \in from .. i :
        /\ source[j + 1] = "%"
        /\ \A k \in j .. i - 1 : source[k + 1] # "\n"

\* the character is a space or a tab of the indentation that follows the
\* line break of a comment
InCommentIndent(source, from, i) ==
    /\ source[i + 1] \in {" ", "\t"}
    /\ \E e \in from .. i - 1 :
          /\ source[e + 1] = "\n" /\ InComment(source, from, e)
          /\ \A k \in e + 1 .. i : source[k + 1] \in {" ", "\t"}

\* the offsets between two offsets that are outside the comments
OutsideComments(source, from, to) ==
    {i \in from .. to - 1 : ~InComment(source, from, i) /\ ~InCommentIndent(source, from, i)}

\* C19: _parseSpaceToken consumes a maximal run of spaces, tabs, carriage
\* returns, line breaks and comments: outside the comments it moved over
\* there are only such characters, and it stops at the end of the source or
\* at a character that is none of them and no comment mark.  It returns no
\* token when it consumed no such character outside the comments; else a
\* token whose lexeme is the inline space when at most one line break was
\* consumed outside the comments and the paragraph separator when two or
\* more were; the line break that ends a comment is not counted.
C19_SpaceStep ==
    call.method = "_parseSpaceToken" =>
        LET source == call.context.source
            from == call.context.sourceOffset
            to == call.parsed.sourceOffset
            consumed == OutsideComments(source, from, to)
            nLineBreaks == Cardinality({i \in consumed : source[i + 1] = "\n"})
        IN  /\ call.parsed.error = None
            /\ from <= to
            /\ \A i \in consumed : source[i + 1] \in SpaceCharacters
            /\ to = Len(source) \/ source[to + 1] \notin SpaceCharacters \cup {"%"}
            /\ consumed = {} => call.token = None
            /\ consumed # {} =>
                  /\ call.token # None
                  /\ call.token[1].class = "SpaceToken"
                  /\ call.token[1].properties.lineBreakCount = nLineBreaks
                  /\ call.lexeme = Some(IF nLineBreaks <= 1 THEN "SPACE"
                                        ELSE "PARAGRAPH_SEPARATOR")

\* a paragraph separator was returned by a call that moved over a comment
\* and its line break
C19_Witness ==
    /\ call.method = "_parseSpaceToken"
    /\ call.lexeme = Some("PARAGRAPH_SEPARATOR")
    /\ \E i \in call.context.sourceOffset .. call.parsed.sourceOffset - 1 :
          /\ call.context.source[i + 1] = "\n"
          /\ InComment(call.context.source, call.context.sourceOffset, i)

RECURSIVE SpaceTokensOf(_, _)
\* the space tokens of a token list and of the subtrees of its tokens, each
\* with the offsets of the source it covers; the list begins at an offset,
\* a token begins its shift after the end of the token before it, and the
\* children of a token begin where the token does
SpaceTokensOf(list, offset) ==
    IF list = <<>> THEN {}
    ELSE LET token == Head(list)
             begin == offset + token.sourceShift
         IN  (IF token.class = "SpaceToken"
              THEN {[begin |-> begin, end |-> begin + token.sourceLength, token |-> token]}
              ELSE {})
             \cup SpaceTokensOf(token.childNodes, begin)
             \cup SpaceTokensOf(Tail(list), begin + token.sourceLength)

\* C20 as stated: two consecutive line breaks anywhere in the source that
\* parse returned for are covered by one space token with the paragraph
\* separator lexeme.
C20_ConsecutiveLineBreaks ==
    running = "returned" =>
        \A i \in 0 .. Len(context.source) - 2 :
            context.source[i + 1] = "\n" /\ context.source[i + 2] = "\n" =>
                \E space \in SpaceTokensOf(tokens, 0) :
                    /\ space.begin <= i /\ i + 2 <= space.end
                    /\ SpaceTokenLexeme(space.token) = "PARAGRAPH_SEPARATOR"

\* C20, amended: a space token of the parsed tokens covers spaces, tabs,
\* carriage returns, line breaks and comments only, and is a paragraph
\* separator exactly when it covers two line breaks or more outside the
\* comments (the line break that ends a comment belongs to the comment); a
\* space token never begins where another one ends.
C20_ParagraphSeparators ==
    \A space \in SpaceTokensOf(tokens, 0) :
        LET consumed == OutsideComments(context.source, space.begin, space.end)
            nLineBreaks == Cardinality({i \in consumed : context.source[i + 1] = "\n"})
        IN  /\ 0 <= space.begin /\ space.begin < space.end
            /\ space.end <= Len(context.source)
            /\ consumed # {}
            /\ \A i \in consumed : context.source[i + 1] \in SpaceCharacters
            /\ SpaceTokenLexeme(space.token) = "PARAGRAPH_SEPARATOR" <=> nLineBreaks >= 2
            /\ \A other \in SpaceTokensOf(tokens, 0) : other.begin # space.end

\* parse returned a paragraph separator that covers two consecutive line
\* breaks
C20_Witness ==
    /\ running = "returned"
    /\ \E space \in SpaceTokensOf(tokens, 0) :
          /\ SpaceTokenLexeme(space.token) = "PARAGRAPH_SEPARATOR"
          /\ \E i \in space.begin .. space.end - 2 :
                context.source[i + 1] = "\n" /\ context.source[i + 2] = "\n"

\* the text between two offsets is "a", then spaces, tabs and comments
\* only, then "a"
SpacedPatternText(source, from, to) ==
    /\ from + 2 <= to /\ to <= Len(source)
    /\ source[from + 1] = "a" /\ source[to] = "a"
    /\ ~InComment(source, from + 1, to - 1)
    /\ \A i \in OutsideComments(source, from + 1, to - 1) : source[i + 1] \in {" ", "\t"}

\* C21: a place for space in a pattern matches zero or more spaces and
\* tabs, comments at the place being skipped: the symbol with the pattern
\* "a a" matches every text that is "a", any number of spaces, tabs and
\* comments, and "a", the text "aa" included.
C21_SpacePlaceholder ==
    call.method = "_parsePattern" =>
        \A to \in 0 .. Len(call.context.source) :
            SpacedPatternText(call.context.source, call.context.sourceOffset, to) =>
                /\ call.token # None
                /\ call.parsed.sourceOffset = to

\* what holds of the place for space: the pattern "a a" matches exactly the
\* texts that are "a", a run that _parseSpaceToken makes a token of (one
\* space, tab, carriage return or line break outside comments at least),
\* and "a"
SpacePlaceholderNeedsSpace ==
    call.method = "_parsePattern" =>
        LET source == call.context.source
            from == call.context.sourceOffset
            to == call.parsed.sourceOffset
        IN  call.token # None <=>
                /\ from + 3 <= to /\ source[from + 1] = "a" /\ source[to] = "a"
                /\ ~InComment(source, from + 1, to - 1)
                /\ OutsideComments(source, from + 1, to - 1) # {}
                /\ \A i \in OutsideComments(source, from + 1, to - 1) :
                      source[i + 1] \in SpaceCharacters

\* the definitions of a package list that have a key and match a state, in
\* the order of the list
RECURSIVE Matching(_, _, _, _)
Matching(items, store, state, key) ==
    IF items = <<>> THEN <<>>
    ELSE (IF StoreKey(store, Head(items)) = key /\ StateTest(state, Head(items).modes)
          THEN <<Head(items)>> ELSE <<>>)
         \o Matching(Tail(items), store, state, key)

RECURSIVE LoadedMatching(_, _, _, _)
\* the same of the loaded packages, those loaded later first
LoadedMatching(packages, store, state, key) ==
    IF packages = <<>> THEN <<>>
    ELSE LET last == packages[Len(packages)].syntaxPackage
             items == IF store = "_symbols" THEN last.symbols
                      ELSE IF store = "_commands" THEN last.commands
                      ELSE last.environments
         IN  Matching(items, store, state, key)
             \o LoadedMatching(SubSeq(packages, 1, Len(packages) - 1), store, state, key)

\* the store that a method reads
StoreOf(method) ==
    IF method = "symbols" THEN "_symbols"
    ELSE IF method = "commands" THEN "_commands"
    ELSE "_environments"

\* C22: after any sequence of loadPackage and unloadPackage calls,
\* symbols(state, c), commands(state, n) and environments(state, n) return
\* exactly the loaded definitions of that first pattern character or name
\* whose declared modes all have the state's value, those of packages
\* loaded later first and those of one package in the order it declares
\* them.
C22_LoadedDefinitions ==
    call.method \in {"symbols", "commands", "environments"} =>
        /\ call.returned.error = None
        /\ call.returned.items =
               LoadedMatching(latexSyntax.packages, StoreOf(call.method),
                              call.state, call.key)

\* C22 for the keys that are no names of Object.prototype, of a syntax
\* that holds nothing of a package whose loadPackage call raised (the symbol
\* "}" is the one of ThirdPackage)
LoadedDefinitionsOfOwnNames ==
    /\ call.method \in {"symbols", "commands", "environments"}
    /\ call.key \notin PrototypeNames
    /\ <<"}">> \notin DOMAIN latexSyntax._symbols
    => /\ call.returned.error = None
       /\ call.returned.items =
              LoadedMatching(latexSyntax.packages, StoreOf(call.method),
                             call.state, call.key)

\* a state with the mode changes of the first n operations of a list: a
\* mode has the value of the last of them that names it
WithChanges(state, operations, n) ==
    [mode \in Modes |->
        LET named == {i \in 1 .. n : operations[i].operand = mode}
        IN  IF named = {} THEN state[mode]
            ELSE operations[SetMax(named)].directive = "BEGIN"]

\* the places of a list that hold BEGIN GROUP, and the k-th of them
GroupBegins(operations) ==
    {i \in 1 .. Len(operations) :
        operations[i].directive = "BEGIN" /\ operations[i].operand = "GROUP"}

EndGroup == [directive |-> "END", operand |-> "GROUP"]

\* C24: restoreState on an empty state stack returns false and leaves the
\* mode states and the empty stack as they are; updateState does not raise
\* for an END GROUP on an empty stack, and the END GROUP leaves the mode
\* states and the stack as they are as well.
C24_RestoreOnEmptyStack ==
    /\ call.method = "restoreState" /\ call.context.stateStack = <<>> =>
           /\ call.returned = FALSE
           /\ call.restored = call.context
    /\ call.method = "updateState" /\ call.context.stateStack = <<>> =>
           /\ call.updated.error = None
           /\ call.operations = <<EndGroup>> => call.updated = call.context

\* restoreState was called for a context in the mathematical mode whose
\* state stack is empty
C24_Witness ==
    /\ call.method = "restoreState"
    /\ call.context.stateStack = <<>>
    /\ call.context.state # InitialModeStates

\* ------------------------------------------------------------------------
\* The objects behind two contexts. A context, a parser state, a LaTeX state
\* and an array are objects: each has an address, its index in the heap's
\* list of its kind, and a field that holds an object holds its address. A
\* source, a label, a name and a comment are strings, that is, values.
\* ------------------------------------------------------------------------
NewHeap == [contexts |-> <<>>, states |-> <<>>, latexStates |-> <<>>, arrays |-> <<>>]

\* a call that returned, and a call that raised (nothing was stored before)
Done(heap) == [heap |-> heap, raised |-> None]
Raised(heap, error) == [heap |-> heap, raised |-> Some(error)]

\* new Latex.State(initialModeStates); the new object is the last one
NewLatexState(heap, initialModeStates) ==
    [heap EXCEPT !.latexStates = Append(@, StateUpdate(InitialModeStates, initialModeStates))]

\* latexState.copy()
LatexStateCopy(heap, latexState) == NewLatexState(heap, heap.latexStates[latexState])

\* new LatexParser.State()
NewState(heap) ==
    LET made == NewLatexState(heap, NoModeStates)
    IN  [made EXCEPT !.states = Append(@, Len(made.latexStates))]

\* new LatexParser.State(other) that takes the LaTeX state of the other
StateCopyShared(heap, other) == [heap EXCEPT !.states = Append(@, heap.states[other])]

\* state.copy(), new LatexParser.State(other)
StateCopy(heap, other) ==
    LET copied == LatexStateCopy(heap, heap.states[other])
    IN  [copied EXCEPT !.states = Append(@, Len(copied.latexStates))]

\* this.copy(target) of a state
StateCopyTo(heap, this, target) ==
    LET copied == LatexStateCopy(heap, heap.states[this])
    IN  [copied EXCEPT !.states[target] = Len(copied.latexStates)]

\* []
NewArray(heap) == [heap EXCEPT !.arrays = Append(@, <<>>)]

\* array.slice()
ArraySlice(heap, array) == [heap EXCEPT !.arrays = Append(@, heap.arrays[array])]

\* new LatexParser.Context(source) for a string
NewContext(heap, source) ==
    LET state == NewState(heap)
        stateStack == NewArray(state)
        comments == NewArray(stateStack)
    IN  [comments EXCEPT !.contexts = Append(@,
            [ _source |-> source,
              _sourceOffset |-> 0,
              _sourceCuttingOffset |-> 0,
              _state |-> Len(state.states),
              _stateStack |-> Len(stateStack.arrays),
              _token |-> None,
              _stopLabel |-> None,
              _latexLexeme |-> None,
              _latexCommandName |-> None,
              _latexParameter |-> None,
              _latexEnvironmentName |-> None,
              _comments |-> Len(comments.arrays) ])]

\* the fields a copy of the context gets, and the heap with the objects made
\* for them
ContextCopyFields(heap, this) ==
    LET ctx == heap.contexts[this]
        state == StateCopy(heap, ctx._state)
        stateStack == ArraySlice(state, ctx._stateStack)
        comments == ArraySlice(stateStack, ctx._comments)
    IN  [ heap |-> comments,
          fields |-> [ctx EXCEPT !._state = Len(state.states),
                                 !._stateStack = Len(stateStack.arrays),
                                 !._comments = Len(comments.arrays)] ]

\* this.copy(): new LatexParser.Context(this), the last context of the heap
ContextCopy(heap, this) ==
    LET copied == ContextCopyFields(heap, this)
    IN  [copied.heap EXCEPT !.contexts = Append(@, copied.fields)]

\* this.copy(target)
ContextCopyTo(heap, this, target) ==
    LET copied == ContextCopyFields(heap, this)
    IN  [copied.heap EXCEPT !.contexts[target] = copied.fields]

\* set sourceOffset(offset)
HeapSetSourceOffset(heap, c, offset) ==
    IF offset = 0 THEN Raised(heap, "TypeError")
    ELSE IF offset < heap.contexts[c]._sourceOffset THEN Raised(heap, "TypeError")
    ELSE IF offset > Len(heap.contexts[c]._source) THEN Raised(heap, "TypeError")
    ELSE Done([heap EXCEPT !.contexts[c]._sourceOffset = offset])

\* markSourceCuttingOffset()
HeapMarkSourceCuttingOffset(heap, c) ==
    Done([heap EXCEPT !.contexts[c]._sourceCuttingOffset = heap.contexts[c]._sourceOffset])

\* this.state.latexState.update(modeStates)
HeapStateUpdate(heap, c, modeStates) ==
    [heap EXCEPT !.latexStates[heap.states[heap.contexts[c]._state]] =
                     StateUpdate(@, modeStates)]

\* backupState() that pushes the state itself, not a copy of it
HeapBackupStateShared(heap, c) ==
    [heap EXCEPT !.arrays[heap.contexts[c]._stateStack] =
                     Append(@, heap.contexts[c]._state)]

\* backupState()
HeapBackupState(heap, c) ==
    LET copied == StateCopy(heap, heap.contexts[c]._state)
    IN  [copied EXCEPT !.arrays[heap.contexts[c]._stateStack] =
                           Append(@, Len(copied.states))]

\* restoreState()
HeapRestoreState(heap, c) ==
    LET stateStack == heap.arrays[heap.contexts[c]._stateStack]
    IN  IF stateStack = <<>> THEN heap
        ELSE StateCopyTo(
                 [heap EXCEPT !.arrays[heap.contexts[c]._stateStack] =
                                  SubSeq(@, 1, Len(@) - 1)],
                 stateStack[Len(stateStack)], heap.contexts[c]._state)

RECURSIVE HeapUpdateStateFrom(_, _, _, _)
\* updateState(operations), from an operation on
HeapUpdateStateFrom(heap, c, operations, newModeStates) ==
    IF operations = <<>> THEN HeapStateUpdate(heap, c, newModeStates)
    ELSE LET operation == Head(operations)
         IN  IF operation.operand = "GROUP"
             THEN IF operation.directive = "BEGIN"
                  THEN HeapUpdateStateFrom(
                           HeapBackupState(HeapStateUpdate(heap, c, newModeStates), c),
                           c, Tail(operations), NoModeStates)
                  ELSE HeapUpdateStateFrom(HeapRestoreState(heap, c), c,
                                           Tail(operations), NoModeStates)
             ELSE HeapUpdateStateFrom(heap, c, Tail(operations),
                      WithModeState(newModeStates, operation.operand,
                                    operation.directive = "BEGIN"))

\* updateState(operations)
HeapUpdateState(heap, c, operations) ==
    Done(HeapUpdateStateFrom(heap, c, operations, NoModeStates))

\* set stopLabel(stopLabel)
HeapSetStopLabel(heap, c, stopLabel) ==
    IF heap.contexts[c]._stopLabel = None
    THEN Done([heap EXCEPT !.contexts[c]._stopLabel = Some(stopLabel)])
    ELSE Raised(heap, "ReferenceError")

\* clearStopLabel()
HeapClearStopLabel(heap, c) == Done([heap EXCEPT !.contexts[c]._stopLabel = None])

\* set latexLexeme, latexCommandName, latexParameter, latexEnvironmentName
HeapSetPending(heap, c, field, value) ==
    IF heap.contexts[c][field] = None
    THEN Done([heap EXCEPT !.contexts[c][field] = Some(value)])
    ELSE Raised(heap, "ReferenceError")

\* clearLatexLexeme(), clearLatexCommandName(), clearLatexParameter(),
\* clearLatexEnvironmentName()
HeapClearPending(heap, c, field) == Done([heap EXCEPT !.contexts[c][field] = None])

\* set token(token)
HeapSetToken(heap, c, token) == Done([heap EXCEPT !.contexts[c]._token = token])

\* storeComment(comment)
HeapStoreComment(heap, c, comment) ==
    Done([heap EXCEPT !.arrays[heap.contexts[c]._comments] = Append(@, comment)])

\* what the fields of a context hold: the fields, and what is read through
\* those that hold objects
ContextValue(heap, c) ==
    LET ctx == heap.contexts[c]
        stateStack == heap.arrays[ctx._stateStack]
    IN  [ fields |-> ctx,
          state |-> heap.latexStates[heap.states[ctx._state]],
          stateStack |-> [i \in 1 .. Len(stateStack) |->
                             heap.latexStates[heap.states[stateStack[i]]]],
          comments |-> heap.arrays[ctx._comments] ]

\* ------------------------------------------------------------------------
\* Two contexts c1 and c2, operations on them, c2 = c1.copy() or c1.copy(c2),
\* and operations on them again
\* ------------------------------------------------------------------------
MaxCalls == 3

\* the lists of operations updateState is called for
CopyOperationLists ==
    { <<[directive |-> "BEGIN", operand |-> "MATH"]>>,
      <<[directive |-> "END", operand |-> "TEXT"],
        [directive |-> "BEGIN", operand |-> "GROUP"]>>,
      <<[directive |-> "END", operand |-> "GROUP"]>> }

PendingFields ==
    {"_latexLexeme", "_latexCommandName", "_latexParameter", "_latexEnvironmentName"}

\* c1 = new LatexParser.Context("ab"), c2 = new LatexParser.Context("b")
NewContexts ==
    /\ call = NoCall
    /\ call' = [method |-> "copy",
                heap |-> NewContext(NewContext(NewHeap, <<"a", "b">>), <<"b">>),
                c1 |-> 1, c2 |-> 2, copied |-> FALSE, acted |-> 0, calls |-> 0,
                raised |-> None]
    /\ UNCHANGED <<treeVars, lastOp, tokenVars, context, tokens, spans, running,
                   latexSyntax>>

\* the two contexts
BothContexts == {call.c1, call.c2}

\* a call of a context's method has returned or raised
Called(c, result) ==
    call' = [call EXCEPT !.heap = result.heap, !.raised = result.raised,
                         !.acted = c, !.calls = @ + 1]

\* the state a method of a context can be called in
Callable == call.method = "copy" /\ call.calls < MaxCalls

\* c2 = c1.copy()
CopyCall ==
    /\ call.method = "copy" /\ ~call.copied
    /\ \E copy \in {ContextCopy(call.heap, call.c1)} :
           call' = [call EXCEPT !.heap = copy, !.c2 = Len(copy.contexts),
                                !.copied = TRUE, !.acted = 0, !.raised = None]
    /\ UNCHANGED <<treeVars, lastOp, tokenVars, context, tokens, spans, running,
                   latexSyntax>>

\* c1.copy(c2)
CopyToCall ==
    /\ call.method = "copy" /\ ~call.copied
    /\ call' = [call EXCEPT !.heap = ContextCopyTo(call.heap, call.c1, call.c2),
                            !.copied = TRUE, !.acted = 0, !.raised = None]
    /\ UNCHANGED <<treeVars, lastOp, tokenVars, context, tokens, spans, running,
                   latexSyntax>>

\* c.sourceOffset = offset
SetSourceOffsetCall ==
    /\ Callable
    /\ \E c \in BothContexts : \E offset \in 0 .. 2 :
           Called(c, HeapSetSourceOffset(call.heap, c, offset))
    /\ UNCHANGED <<treeVars, lastOp, tokenVars, context, tokens, spans, running,
                   latexSyntax>>

\* c.markSourceCuttingOffset()
MarkSourceCuttingOffsetCall ==
    /\ Callable
    /\ \E c \in BothContexts : Called(c, HeapMarkSourceCuttingOffset(call.heap, c))
    /\ UNCHANGED <<treeVars, lastOp, tokenVars, context, tokens, spans, running,
                   latexSyntax>>

\* c.updateState(operations)
ContextUpdateStateCall ==
    /\ Callable
    /\ \E c \in BothContexts : \E operations \in CopyOperationLists :
           Called(c, HeapUpdateState(call.heap, c, operations))
    /\ UNCHANGED <<treeVars, lastOp, tokenVars, context, tokens, spans, running,
                   latexSyntax>>

\* c.backupState()
BackupStateCall ==
    /\ Callable
    /\ \E c \in BothContexts : Called(c, Done(HeapBackupState(call.heap, c)))
    /\ UNCHANGED <<treeVars, lastOp, tokenVars, context, tokens, spans, running,
                   latexSyntax>>

\* c.restoreState()
ContextRestoreStateCall ==
    /\ Callable
    /\ \E c \in BothContexts : Called(c, Done(HeapRestoreState(call.heap, c)))
    /\ UNCHANGED <<treeVars, lastOp, tokenVars, context, tokens, spans, running,
                   latexSyntax>>

\* c.stopLabel = "}"
SetStopLabelCall ==
    /\ Callable
    /\ \E c \in BothContexts : Called(c, HeapSetStopLabel(call.heap, c, "}"))
    /\ UNCHANGED <<treeVars, lastOp, tokenVars, context, tokens, spans, running,
                   latexSyntax>>

\* c.clearStopLabel()
ClearStopLabelCall ==
    /\ Callable
    /\ \E c \in BothContexts : Called(c, HeapClearStopLabel(call.heap, c))
    /\ UNCHANGED <<treeVars, lastOp, tokenVars, context, tokens, spans, running,
                   latexSyntax>>

\* c.latexLexeme = ..., c.latexCommandName = ..., c.latexParameter = ...,
\* c.latexEnvironmentName = ...
SetPendingCall ==
    /\ Callable
    /\ \E c \in BothContexts : \E field \in PendingFields :
           Called(c, HeapSetPending(call.heap, c, field, "d"))
    /\ UNCHANGED <<treeVars, lastOp, tokenVars, context, tokens, spans, running,
                   latexSyntax>>

\* c.clearLatexLexeme(), ...
ClearPendingCall ==
    /\ Callable
    /\ \E c \in BothContexts : \E field \in PendingFields :
           Called(c, HeapClearPending(call.heap, c, field))
    /\ UNCHANGED <<treeVars, lastOp, tokenVars, context, tokens, spans, running,
                   latexSyntax>>

\* c.token = token, for a token or null
SetTokenCall ==
    /\ Callable
    /\ \E c \in BothContexts : \E token \in {None, Some("token")} :
           Called(c, HeapSetToken(call.heap, c, token))
    /\ UNCHANGED <<treeVars, lastOp, tokenVars, context, tokens, spans, running,
                   latexSyntax>>

\* c.storeComment("%")
StoreCommentCall ==
    /\ Callable
    /\ \E c \in BothContexts : Called(c, HeapStoreComment(call.heap, c, "%"))
    /\ UNCHANGED <<treeVars, lastOp, tokenVars, context, tokens, spans, running,
                   latexSyntax>>

NextCopy ==
    \/ NewContexts
    \/ CopyCall
    \/ CopyToCall
    \/ SetSourceOffsetCall
    \/ MarkSourceCuttingOffsetCall
    \/ ContextUpdateStateCall
    \/ BackupStateCall
    \/ ContextRestoreStateCall
    \/ SetStopLabelCall
    \/ ClearStopLabelCall
    \/ SetPendingCall
    \/ ClearPendingCall
    \/ SetTokenCall
    \/ StoreCommentCall

SpecCopy == Init /\ [][NextCopy]_vars

\* a method of the context c was called after the copy was made
CalledAfterCopy(c) ==
    /\ call.method = "copy" /\ call.copied
    /\ call'.method = "copy" /\ call'.acted = c /\ call'.calls = call.calls + 1

\* C25: after c2 = c1.copy() or c1.copy(c2), a call of a method of one of
\* the two contexts (setting the offset, marking the cut, updating the mode
\* states, backing up or restoring the state, setting or clearing the stop
\* label or a pending field, setting the token, storing a comment) leaves
\* every field of the other context, and what its state, state stack and
\* comments hold, as they were; the two contexts have the same source.
C25_CopyIsIndependent ==
    [][/\ CalledAfterCopy(call.c1) =>
              ContextValue(call'.heap, call.c2) = ContextValue(call.heap, call.c2)
       /\ CalledAfterCopy(call.c2) =>
              ContextValue(call'.heap, call.c1) = ContextValue(call.heap, call.c1)
       /\ call'.method = "copy" /\ call'.copied =>
              call'.heap.contexts[call'.c1]._source = call'.heap.contexts[call'.c2]._source
      ]_vars

\* methods of the copy were called that changed its mode states, its state
\* stack and its comments
C25_Witness ==
    /\ call.method = "copy" /\ call.copied /\ call.acted = call.c2
    /\ ContextValue(call.heap, call.c1).state # ContextValue(call.heap, call.c2).state
    /\ ContextValue(call.heap, call.c1).stateStack # ContextValue(call.heap, call.c2).stateStack
    /\ ContextValue(call.heap, call.c1).comments # ContextValue(call.heap, call.c2).comments

\* ------------------------------------------------------------------------
\* A context whose stop label is assigned and cleared, and that is parsed
\* ------------------------------------------------------------------------
MaxLabelCalls == 3

\* the texts the contexts are created for
LabelSources == Texts(2, 1)

\* the labels assigned: "}", the empty string and /^\\end(?:{|\s|%)/
StopLabels == {StringLabel(<<"}">>), StringLabel(<<>>), EndLabel}

\* the context a caller goes on with after it has caught the exception
Caught(ctx) == [ctx EXCEPT !.error = None]

\* context = new LatexParser.Context(source)
LabelContext ==
    /\ call = NoCall
    /\ \E source \in LabelSources :
           call' = [method |-> "stopLabel", op |-> "new", calls |-> 0,
                    label |-> None, before |-> Context(source),
                    context |-> Context(source), tokens |-> <<>>]
    /\ UNCHANGED <<treeVars, lastOp, tokenVars, context, tokens, spans, running,
                   latexSyntax>>

\* the state in which a method of the context can be called
LabelCallable == call.method = "stopLabel" /\ call.calls < MaxLabelCalls

\* context.stopLabel = label
AssignStopLabel ==
    /\ LabelCallable
    /\ \E label \in StopLabels :
           call' = [call EXCEPT !.op = "set", !.calls = @ + 1,
                                !.label = Some(label),
                                !.before = Caught(call.context),
                                !.context = SetStopLabel(Caught(call.context), label),
                                !.tokens = <<>>]
    /\ UNCHANGED <<treeVars, lastOp, tokenVars, context, tokens, spans, running,
                   latexSyntax>>

\* context.clearStopLabel()
ClearAssignedLabel ==
    /\ LabelCallable
    /\ call' = [call EXCEPT !.op = "clear", !.calls = @ + 1, !.label = None,
                            !.before = Caught(call.context),
                            !.context = ClearStopLabel(Caught(call.context)),
                            !.tokens = <<>>]
    /\ UNCHANGED <<treeVars, lastOp, tokenVars, context, tokens, spans, running,
                   latexSyntax>>

\* latexParser.parse(context)
ParseLabelled ==
    /\ LabelCallable
    /\ \E parsed \in {Parse(Caught(call.context))} :
           call' = [call EXCEPT !.op = "parse", !.calls = @ + 1, !.label = None,
                                !.before = Caught(call.context),
                                !.context = parsed.context,
                                !.tokens = parsed.tokens]
    /\ UNCHANGED <<treeVars, lastOp, tokenVars, context, tokens, spans, running,
                   latexSyntax>>

NextStopLabel ==
    \/ LabelContext
    \/ AssignStopLabel
    \/ ClearAssignedLabel
    \/ ParseLabelled

SpecStopLabel == Init /\ [][NextStopLabel]_vars

\* C26: a stop label assigned to a context that holds one raises
\* ReferenceError and the label held stays; assigned to a context that
\* holds none (a new one, or after clearStopLabel or parse) it is stored;
\* parse, entered with a label, has cleared it when it parses the first
\* token: the first token returned is the one parsed with no label held.
C26_StopLabelOnce ==
    call.method = "stopLabel" =>
        /\ call.op = "set" /\ call.before.stopLabel # None =>
               /\ call.context.error = Some("ReferenceError")
               /\ Caught(call.context) = call.before
        /\ call.op = "set" /\ call.before.stopLabel = None =>
               call.context = [call.before EXCEPT !.stopLabel = call.label]
        /\ call.op = "clear" => call.context.stopLabel = None
        /\ call.op = "parse" /\ call.before.stopLabel # None /\ call.tokens # <<>> =>
               Some(call.tokens[1]) =
                   ParseToken([call.before EXCEPT !.stopLabel = None]).token

\* a context that was assigned "}" was parsed and a token was returned, and
\* then a label was assigned again
C26_Witness ==
    /\ call.method = "stopLabel" /\ call.op = "parse"
    /\ call.before.stopLabel = Some(StringLabel(<<"}">>))
    /\ call.tokens # <<>>
    /\ call.context.stopLabel = None

\* a label was assigned to a context that held one
C26_WitnessAssignedTwice ==
    /\ call.method = "stopLabel" /\ call.op = "set"
    /\ call.before.stopLabel # None

\* the list parse returned, slot by slot: a token, or null
ReturnedSlots == [i \in 1 .. Len(call.tokens) |-> Some(call.tokens[i])]

\* parse returned for a context that held a label, and not because the
\* label was found: _parseToken gave no token before the label
StoppedBeforeLabel ==
    /\ call.method = "stopLabel" /\ call.op = "parse"
    /\ ~Failed(call.context)
    /\ call.before.stopLabel # None
    /\ ~SourceProbe(call.context, call.before.stopLabel[1])

\* parse returned, and not because the end of the source was reached (for
\* no label) or the label was found
StoppedEarly ==
    \/ StoppedBeforeLabel
    \/ /\ call.method = "stopLabel" /\ call.op = "parse"
       /\ ~Failed(call.context)
       /\ call.before.stopLabel = None
       /\ ~IsAtSourceEnd(call.context)

\* C27: the list parse returns ends with a null slot if parse stopped
\* because a token could not be parsed before the end of the source or
\* before the stop label, and has no null slot otherwise.
C27_TrailingNullSlot ==
    call.method = "stopLabel" /\ call.op = "parse" /\ ~Failed(call.context) =>
        IF StoppedEarly
        THEN /\ ReturnedSlots # <<>>
             /\ ReturnedSlots[Len(ReturnedSlots)] = None
             /\ \A i \in 1 .. Len(ReturnedSlots) - 1 : ReturnedSlots[i] # None
        ELSE \A i \in 1 .. Len(ReturnedSlots) : ReturnedSlots[i] # None

\* what holds instead: no slot of the returned list is null, whether parse
\* stopped early or not, and the tokens are in the order of the source
ReturnedListHasNoNullSlot ==
    call.method = "stopLabel" /\ call.op = "parse" =>
        /\ \A i \in 1 .. Len(ReturnedSlots) : ReturnedSlots[i] # None
        /\ StoppedBeforeLabel => IsAtSourceEnd(call.context)

\* parse stopped before the label with a token in the list
StoppedBeforeLabelWithToken == StoppedBeforeLabel /\ call.tokens # <<>>

\* ------------------------------------------------------------------------
\* LatexParser._tokenParserCallback(context) called for a context with
\* pending fields and a stop label
\* ------------------------------------------------------------------------
\* the comments a source begins with, and what follows them
DispatchComments ==
    { <<>>, <<"%", "\n">>, <<"%", "a", "\n">>, <<"%", "a">>,
      <<"%", "a", "\n", "%", "a", "\n">>, <<"%", "\n", "%", "a", "\n">> }

DispatchTexts ==
    { <<>>, <<"a">>, <<"\\", "a">>, <<"\\", "1">>,
      <<"\\", "b", "e", "g", "i", "n", "{", "d", "}">>,
      <<"\\", "b", "e", "g", "i", "n", " ", "{", "}">> }

\* the contexts of the calls: new ones, after the setters of the pending
\* fields and of the stop label were called or not
DispatchContexts ==
    { [Context(comments \o text) EXCEPT !.latexCommandName = latexCommandName,
                                        !.latexParameter = latexParameter,
                                        !.latexEnvironmentName = latexEnvironmentName,
                                        !.stopLabel = stopLabel] :
          comments \in DispatchComments, text \in DispatchTexts,
          latexCommandName \in {None, Some(<<"a">>)},
          latexParameter \in {None, Some(Parameter(None, <<>>))},
          latexEnvironmentName \in {None, Some(<<"d">>)},
          stopLabel \in {None, Some(StringLabel(<<"}">>)), Some(StringLabel(<<>>)),
                         Some(EndLabel)} }

\* this._tokenParserCallback(context)
TokenParserCallbackCall ==
    /\ call = NoCall
    /\ \E ctx \in DispatchContexts :
           call' = [method |-> "_tokenParserCallback", context |-> ctx,
                    chosen |-> TokenParserCallback(ctx)]
    /\ UNCHANGED <<treeVars, lastOp, tokenVars, context, tokens, spans, running,
                   latexSyntax>>

SpecDispatch == Init /\ [][TokenParserCallbackCall]_vars

\* the first match of the order of the claim for a context, "labelled"
\* telling if its stop label counts as set
FirstMatch(ctx, labelled) ==
    IF ctx.latexCommandName # None THEN "_parseCommandToken"
    ELSE IF ctx.sourceOffset >= Len(ctx.source) THEN "null"
    ELSE IF ctx.latexParameter # None THEN "_parseParameterToken"
    ELSE IF labelled THEN "_parseSourceToken"
    ELSE IF ctx.latexEnvironmentName # None THEN "_parseEnvironmentBodyToken"
    ELSE IF BeginProbe(ctx) THEN "_parseEnvironmentToken"
    ELSE IF CommandProbe(ctx) THEN "_parseCommandToken"
    ELSE "_parseSymbolToken"

\* C28: the callback is chosen after all the comments at the offset are
\* skipped (no comment is left at the offset), and it is the first match of:
\* pending command name, command; source ended, none; pending parameter,
\* parameter; stop label set, source; pending environment name, environment
\* body; \begin{...} ahead, environment; command ahead, command; symbol.
C28_DispatchOrder ==
    call.method = "_tokenParserCallback" /\ ~Failed(call.chosen.context) =>
        /\ SourceCharacter(call.chosen.context) # "%"
        /\ call.chosen.callback =
               FirstMatch(call.chosen.context, call.chosen.context.stopLabel # None)

\* what holds: the comments are skipped up to the first empty one, a label
\* that is the empty string counts as no label, and the order is the one of
\* the claim
DispatchOrderOfNonEmpty ==
    call.method = "_tokenParserCallback" /\ ~Failed(call.chosen.context) =>
        /\ \/ SourceCharacter(call.chosen.context) # "%"
           \/ /\ call.chosen.context.comments # <<>>
              /\ call.chosen.context.comments[Len(call.chosen.context.comments)] = <<>>
        /\ call.chosen.callback =
               FirstMatch(call.chosen.context,
                          /\ call.chosen.context.stopLabel # None
                          /\ call.chosen.context.stopLabel # Some(StringLabel(<<>>)))
        /\ call.chosen.context =
               [call.context EXCEPT !.sourceOffset = call.chosen.context.sourceOffset,
                                    !.comments = call.chosen.context.comments,
                                    !.offsetWrites = call.chosen.context.offsetWrites]

\* a pending command name is dispatched at the end of the source, and a
\* pending parameter is not
DispatchedAtSourceEnd ==
    /\ call.method = "_tokenParserCallback"
    /\ IsAtSourceEnd(call.chosen.context)
    /\ call.chosen.context.latexParameter # None
    /\ call.chosen.callback = "_parseCommandToken"

\* ------------------------------------------------------------------------
\* toString(false): the text of a token without the node types
\* ------------------------------------------------------------------------
\* the digit of a number from 0 to 9
DigitOf(n) == CHOOSE char \in Digits : DigitValue(char) = n

RECURSIVE DigitsOf(_)
\* "" + n
DigitsOf(n) ==
    IF n < 10 THEN <<DigitOf(n)>> ELSE DigitsOf(n \div 10) \o <<DigitOf(n % 10)>>

RECURSIVE SymbolPattern(_)
\* LatexSyntax.Symbol: get pattern(), the components put back into a text
SymbolPattern(patternComponents) ==
    IF patternComponents = <<>> THEN <<>>
    ELSE LET patternComponent == Head(patternComponents)
         IN  (CASE patternComponent.type = "number" ->
                       <<"#">> \o DigitsOf(patternComponent.index + 1)
                [] patternComponent.type = "string" -> patternComponent.text
                [] OTHER -> <<" ">>)
             \o SymbolPattern(Tail(patternComponents))

\* LatexTree.SymbolToken: get pattern(), or the pattern the token was made
\* with
TokenPattern(token) ==
    IF token.properties.symbol # None
    THEN SymbolPattern(token.properties.symbol[1].patternComponents)
    ELSE token.properties.pattern

\* LatexTree.CommandToken: get name(), or the name the token was made with
CommandTokenName(token) ==
    IF token.properties.symbol # None THEN token.properties.symbol[1].name
    ELSE token.properties.name

\* LatexTree.EnvironmentToken: get name(), or the name the token was made
\* with
EnvironmentTokenName(token) ==
    IF token.properties.environment # None THEN token.properties.environment[1].name
    ELSE token.properties.name

RECURSIVE TokenToString(_)
RECURSIVE ChildNodesToString(_, _)
RECURSIVE PatternToString(_, _, _)

\* Tree.Node._toString(false, ...): the texts of the child nodes joined,
\* from a child on
ChildNodesToString(token, i) ==
    IF i > Len(token.childNodes) THEN <<>>
    ELSE TokenToString(token.childNodes[i]) \o ChildNodesToString(token, i + 1)

\* LatexTree.SymbolToken._toString(false, ...) from a character of the
\* pattern on: "#" takes the next character for the index of a parameter,
\* and "??" stands for a parameter token that is not there
PatternToString(token, pattern, iPatternChar) ==
    IF iPatternChar >= Len(pattern) THEN <<>>
    ELSE IF pattern[iPatternChar + 1] = "#"
    THEN LET parameterChar == CharacterAt(pattern, iPatternChar + 1)
             hasParameterToken ==
                 /\ parameterChar \in Digits
                 /\ DigitValue(parameterChar) >= 1
                 /\ DigitValue(parameterChar) <= Len(token.childNodes)
         IN  (IF hasParameterToken
              THEN TokenToString(token.childNodes[DigitValue(parameterChar)])
              ELSE <<"?", "?">>)
             \o PatternToString(token, pattern, iPatternChar + 2)
    ELSE <<pattern[iPatternChar + 1]>> \o PatternToString(token, pattern, iPatternChar + 1)

\* LatexTree.SpaceToken._toString(false, ...)
SpaceTokenToString(token) ==
    CASE token.properties.lineBreakCount = 0 -> <<" ">>
      [] token.properties.lineBreakCount = 1 -> <<"\n">>
      [] OTHER -> <<"\n", "\n">>

\* the child token at an index if it is of a class, as the getters
\* beginCommandToken, bodyToken and endCommandToken give it
ChildOfClass(token, index, class) ==
    IF index < Len(token.childNodes) /\ token.childNodes[index + 1].class = class
    THEN Some(token.childNodes[index + 1]) ELSE None

\* LatexTree.EnvironmentToken._toString(false, ...)
EnvironmentTokenToString(token) ==
    LET beginCommandToken == ChildOfClass(token, 0, "CommandToken")
        endCommandToken == ChildOfClass(token, 2, "CommandToken")
        bodyToken == ChildOfClass(token, 1, "EnvironmentBodyToken")
        name == EnvironmentTokenName(token)
    IN  <<"\\", "b", "e", "g", "i", "n", "{">> \o name \o <<"}">>
        \o (IF beginCommandToken # None
            THEN PatternToString(beginCommandToken[1], TokenPattern(beginCommandToken[1]), 0)
            ELSE <<"?", "?">>)
        \o (IF bodyToken # None THEN TokenToString(bodyToken[1]) ELSE <<"?", "?">>)
        \o <<"\\", "e", "n", "d", "{">> \o name \o <<"}">>
        \o (IF endCommandToken # None
            THEN PatternToString(endCommandToken[1], TokenPattern(endCommandToken[1]), 0)
            ELSE <<"?", "?">>)

\* token.toString(false)
TokenToString(token) ==
    CASE token.class = "SymbolToken" -> PatternToString(token, TokenPattern(token), 0)
      [] token.class = "CommandToken" ->
             <<"\\">> \o CommandTokenName(token)
             \o PatternToString(token, TokenPattern(token), 0)
      [] token.class = "ParameterToken" ->
             (IF token.properties.hasSpacePrefix THEN <<" ">> ELSE <<>>)
             \o (IF token.properties.hasBrackets
                 THEN <<"{">> \o ChildNodesToString(token, 1) \o <<"}">>
                 ELSE ChildNodesToString(token, 1))
      [] token.class = "EnvironmentToken" -> EnvironmentTokenToString(token)
      [] token.class = "SpaceToken" -> SpaceTokenToString(token)
      [] token.class = "SourceToken" -> token.properties.source
      [] OTHER -> ChildNodesToString(token, 1)

RECURSIVE TokensToString(_)
\* tokens.map(token => token.toString(false)).join("")
TokensToString(list) ==
    IF list = <<>> THEN <<>> ELSE TokenToString(Head(list)) \o TokensToString(Tail(list))

\* ------------------------------------------------------------------------
\* A source is parsed, the texts of the tokens are joined and parsed again
\* ------------------------------------------------------------------------
\* the texts parsed: those of at most 2 fragments, with "#" and a letter
\* among the fragments
RoundTripFragments == PlainFragments \cup NestingFragments \cup {<<"#">>, <<"d">>}

RoundTripSources ==
    {<<>>} \cup RoundTripFragments
    \cup {first \o second : first \in RoundTripFragments, second \in RoundTripFragments}

\* tokens = latexParser.parse(source); text = the texts of the tokens
\* joined; again = latexParser.parse(text)
RoundTripCall ==
    /\ call = NoCall
    /\ \E source \in RoundTripSources :
       \E parsed \in {Parse(Context(source))} :
       \E text \in {TokensToString(parsed.tokens)} :
           call' = [method |-> "toString", source |-> source,
                    parsed |-> parsed, text |-> text,
                    again |-> Parse(Context(text))]
    /\ UNCHANGED <<treeVars, lastOp, tokenVars, context, tokens, spans, running,
                   latexSyntax>>

SpecRoundTrip == Init /\ [][RoundTripCall]_vars

RECURSIVE TokenKinds(_)
\* the kind of a token and of the tokens in it, in their nesting
TokenKinds(token) ==
    [ class |-> token.class,
      childNodes |-> [i \in 1 .. Len(token.childNodes) |-> TokenKinds(token.childNodes[i])] ]

\* the kinds of the tokens of a list
ListKinds(list) == [i \in 1 .. Len(list) |-> TokenKinds(list[i])]

\* C29: for a source that parse returns a list for, the texts of the
\* tokens of the list (toString(false)), joined, are parsed to a list of
\* tokens of the same kinds in the same nesting.
C29_RoundTrip ==
    call.method = "toString" /\ ~Failed(call.parsed.context) =>
        /\ ~Failed(call.again.context)
        /\ ListKinds(call.again.tokens) = ListKinds(call.parsed.tokens)

\* what holds for one kind of text: a text of spaces, line breaks and
\* comments that is parsed to a list gives a text that is parsed to the
\* same kinds
RoundTripOfSpace ==
    call.method = "toString" /\ ~Failed(call.parsed.context)
    /\ (\A i \in 1 .. Len(call.source) : call.source[i] \in {" ", "\n", "%"}) =>
        /\ ~Failed(call.again.context)
        /\ ListKinds(call.again.tokens) = ListKinds(call.parsed.tokens)

\* ------------------------------------------------------------------------
\* context.sourceOffset = offset, for a context at an offset of its source
\* ------------------------------------------------------------------------
SourceOffsetAssignment ==
    /\ call = NoCall
    /\ \E source \in SpaceSources : \E from \in 0 .. Len(source) :
       \E offset \in (0 - 1) .. (Len(source) + 1) :
           call' = [method |-> "sourceOffset", context |-> ContextAt(source, from),
                    offset |-> offset,
                    assigned |-> SetSourceOffset(ContextAt(source, from), offset)]
    /\ UNCHANGED <<treeVars, lastOp, tokenVars, context, tokens, spans, running,
                   latexSyntax>>

SpecOffset == Init /\ [][SourceOffsetAssignment]_vars

\* C30: the assignment of an offset stores it exactly when it is not less
\* than the present offset and not greater than the length of the source
\* (the present offset and 0 for a new context included); otherwise it
\* raises and the offset stays.
C30_OffsetAssignment ==
    call.method = "sourceOffset" =>
        IF /\ call.context.sourceOffset <= call.offset
           /\ call.offset <= Len(call.context.source)
        THEN ~Failed(call.assigned) /\ call.assigned.sourceOffset = call.offset
        ELSE /\ call.assigned.error = Some("TypeError")
             /\ call.assigned.sourceOffset = call.context.sourceOffset

\* what holds: the same, but the offset 0 is never stored; its assignment
\* raises TypeError
OffsetAssignmentButZero ==
    call.method = "sourceOffset" =>
        IF /\ call.context.sourceOffset <= call.offset
           /\ call.offset <= Len(call.context.source)
           /\ call.offset # 0
        THEN ~Failed(call.assigned) /\ call.assigned.sourceOffset = call.offset
        ELSE /\ call.assigned.error = Some("TypeError")
             /\ call.assigned.sourceOffset = call.context.sourceOffset

\* ------------------------------------------------------------------------
\* LatexParser._parsePatterns(context, symbols) for the symbols of a
\* character that the package above has no symbol for: the symbols that
\* begin with "[", loaded in every priority order, and the sources that
\* hold "[" at their beginning and nowhere else (so that nothing parsed
\* inside a parameter looks the symbols of "[" up)
\* ------------------------------------------------------------------------
\* the longest list of candidates
MaxCandidates == 3

\* the number of fragments that follow the "[" of a source
CandidateFragments == 2

BeginGroup == [directive |-> "BEGIN", operand |-> "GROUP"]

\* the symbols of "[": a parameter that is one token, followed by a space
\* and "]"; a parameter up to "]"; the two characters "[]"; the character
\* alone.  Each has operations of its own.
CandidateSymbols ==
    { Symbol(<<"[", "#", "1", " ", "]">>, None, NoModeStates,
             <<Parameter(None, <<[directive |-> "BEGIN", operand |-> "LIST"]>>)>>,
             <<BeginGroup, [directive |-> "BEGIN", operand |-> "MATH"]>>),
      Symbol(<<"[", "#", "1", "]">>, None, NoModeStates,
             <<Parameter(None, <<>>)>>,
             <<[directive |-> "BEGIN", operand |-> "MATH"]>>),
      Symbol(<<"[", "]">>, None, NoModeStates, <<>>,
             <<BeginGroup>>),
      Symbol(<<"[">>, None, NoModeStates, <<>>,
             <<[directive |-> "END", operand |-> "TEXT"], BeginGroup>>) }

\* the lists latexSyntax.symbols(state, "[") can return for a package of
\* some of these symbols: every order, no symbol twice
CandidateLists ==
    {list \in UNION {[1 .. n -> CandidateSymbols] : n \in 0 .. MaxCandidates} :
        \A i, j \in 1 .. Len(list) : list[i] = list[j] => i = j}

CandidateSources ==
    {<<"[">> \o text : text \in
        {t \in Texts(CandidateFragments, 1) : \A i \in 1 .. Len(t) : t[i] # "["}}

\* _parsePatterns is entered from _parseSymbolToken, which _parseToken
\* called for a new context after it marked the token bound
CandidatesCall ==
    /\ call = NoCall
    /\ \E source \in CandidateSources : \E symbols \in CandidateLists :
       \E ctx \in {MarkSourceCuttingOffset(Context(source))} :
           call' = [method |-> "_parsePatterns", at |-> "some",
                    context |-> ctx, contextBackup |-> ctx,
                    symbols |-> symbols, attempted |-> None, token |-> None,
                    candidates |-> symbols]
    /\ UNCHANGED <<treeVars, lastOp, tokenVars, context, tokens, spans, running,
                   latexSyntax>>

NextCandidates ==
    \/ CandidatesCall
    \/ PatternsTry
    \/ PatternsReturn

SpecCandidates == Init /\ [][NextCandidates]_vars

\* the place in the list of candidates of the symbol that was tried last
\* when _parsePatterns returns a token
Succeeded == Len(call.candidates) - Len(call.symbols) + 1

\* a symbol with no operations: _parsePattern leaves the context for it as
\* the last component of the pattern left it
WithoutOperations(symbol) == [symbol EXCEPT !.operations = <<>>]

RECURSIVE LiteralsFrom(_, _, _, _, _, _)
\* the source inclusions of a pattern, from the k-th component on, are in
\* a source between two offsets, one after the other; with endLabels false
\* an inclusion that follows a parameter is not looked for
LiteralsFrom(patternComponents, k, endLabels, source, from, to) ==
    IF k > Len(patternComponents) THEN TRUE
    ELSE IF \/ patternComponents[k].type # "string"
            \/ ~endLabels /\ k > 1 /\ patternComponents[k - 1].type = "number"
    THEN LiteralsFrom(patternComponents, k + 1, endLabels, source, from, to)
    ELSE \E p \in from .. to - Len(patternComponents[k].text) :
            /\ StartsWith(source, patternComponents[k].text, p)
            /\ LiteralsFrom(patternComponents, k + 1, endLabels, source,
                            p + Len(patternComponents[k].text), to)

\* the token that _parsePatterns returned is the one _parsePattern makes for
\* the first symbol of the list that it makes one for when it is given the
\* context as it was before the attempts; null is returned when it makes
\* none for any symbol of the list
FirstParsedCandidate ==
    IF call.token = None
    THEN \A j \in 1 .. Len(call.candidates) :
            ParsePattern(call.contextBackup, call.candidates[j]).token = None
    ELSE /\ Succeeded \in 1 .. Len(call.candidates)
         /\ call.token[1].properties.symbol = Some(call.candidates[Succeeded])
         /\ ParsePattern(call.contextBackup, call.candidates[Succeeded]).token = call.token
         /\ \A j \in 1 .. Succeeded - 1 :
               ParsePattern(call.contextBackup, call.candidates[j]).token = None

\* the mode states and the state stack that _parsePatterns leaves are those
\* that updateState makes, for the operations of the symbol of the token, of
\* the context as the last component of the pattern left it
OperationsAppliedOnce ==
    call.token # None =>
        LET symbol == call.candidates[Succeeded]
            matched == ParsePattern(call.contextBackup, WithoutOperations(symbol)).context
            updated == UpdateState(matched, symbol.operations)
        IN  /\ call.context.state = updated.state
            /\ call.context.stateStack = updated.stateStack
            /\ call.context.sourceOffset = matched.sourceOffset

\* C31: the token produced for a list of candidates is the one built from
\* the first candidate of the list whose whole pattern matches from the
\* context as it was before the attempts (every source inclusion of its
\* pattern is in the source that the token covers); no candidate is tried
\* after it, null is returned only if every candidate fails, and the
\* operations of the matching definition are applied once, after its last
\* component matched.
C31_FirstMatchingCandidate ==
    (call.method = "_parsePatterns" /\ call.at = "returned") =>
        /\ FirstParsedCandidate
        /\ OperationsAppliedOnce
        /\ call.token # None =>
               LiteralsFrom(call.candidates[Succeeded].patternComponents, 1, TRUE,
                            call.context.source, call.contextBackup.sourceOffset,
                            call.context.sourceOffset)

\* what holds of _parsePatterns instead: the token is the one of the first
\* candidate that _parsePattern returns a token for, the operations of its
\* symbol are applied once after the last component, and the source
\* inclusions of its pattern other than those that end a parameter are in
\* the source that the token covers
FirstCandidateWithToken ==
    (call.method = "_parsePatterns" /\ call.at = "returned") =>
        /\ FirstParsedCandidate
        /\ OperationsAppliedOnce
        /\ call.token # None =>
               LiteralsFrom(call.candidates[Succeeded].patternComponents, 1, FALSE,
                            call.context.source, call.contextBackup.sourceOffset,
                            call.context.sourceOffset)

\* the third candidate of a list gave the token, after two that did not
\* match, and its operations changed the mode states and the state stack
ThirdCandidateGaveToken ==
    /\ call.method = "_parsePatterns"
    /\ call.at = "returned"
    /\ call.token # None
    /\ Succeeded = 3
    /\ call.context.state # call.contextBackup.state
    /\ call.context.stateStack # call.contextBackup.stateStack

\* the source inclusions of a pattern that follow a parameter (the end
\* labels of the parameters)
EndLabels(patternComponents) ==
    {k \in 2 .. Len(patternComponents) :
        /\ patternComponents[k].type = "string"
        /\ patternComponents[k - 1].type = "number"}

\* C32: a candidate matches only if every source inclusion of its pattern
\* is in the source at its place, the closing one that follows a parameter
\* included: a candidate that _parsePattern returned a token for has every
\* end label of its pattern in the source that the token covers (a
\* candidate whose end label is missing, as when the source ends first,
\* gives no token).
C32_ClosingFragmentPresent ==
    (call.method = "_parsePatterns" /\ call.at = "returned" /\ call.token # None) =>
        LET patternComponents == call.candidates[Succeeded].patternComponents
        IN  \A k \in EndLabels(patternComponents) :
                \E p \in call.contextBackup.sourceOffset
                         .. call.context.sourceOffset - Len(patternComponents[k].text) :
                    StartsWith(call.context.source, patternComponents[k].text, p)

\* a token was returned for the pattern "[#1]" and a source that has no "]"
MatchedWithoutClosingFragment ==
    /\ call.method = "_parsePatterns"
    /\ call.at = "returned"
    /\ call.token # None
    /\ EndLabels(call.candidates[Succeeded].patternComponents) # {}
    /\ \A i \in 1 .. Len(call.context.source) : call.context.source[i] # "]"
    /\ call.context.sourceOffset = Len(call.context.source)

\* C33: a candidate that is tried and then rolled back leaves no trace
\* outside the context, the diagnostics callbacks invoked while it was
\* tried are not delivered: during one parse no unrecognized character or
\* command of the source is reported twice (no two invocations have the
\* same callback, argument and position).
C33_ReportedAtMostOnce ==
    \A i, j \in 1 .. Len(context.messages) :
        context.messages[i] = context.messages[j] => i = j

\* ------------------------------------------------------------------------
\* backupState, restoreState and updates of the mode states called for a
\* context and for a copy of it.  Beside the objects, the call keeps for
\* each context what every backupState that is not yet restored found (the
\* mode states and the depth of the stack), and the greatest depth a stack
\* had.
\* ------------------------------------------------------------------------
MaxBackupCalls == 6

\* the operations the mode states are updated with
ModeOperations ==
    { [directive |-> "BEGIN", operand |-> "MATH"],
      [directive |-> "END", operand |-> "TEXT"] }

\* c1 = new LatexParser.Context("")
BackupContext ==
    /\ call = NoCall
    /\ call' = [method |-> "backupState", heap |-> NewContext(NewHeap, <<>>),
                live |-> {1}, found |-> <<<<>>, <<>>>>, restored |-> None,
                deepest |-> 0, calls |-> 0]
    /\ UNCHANGED <<treeVars, lastOp, tokenVars, context, tokens, spans, running,
                   latexSyntax>>

\* the state a method of a context can be called in
BackupCallable == call.method = "backupState" /\ call.calls < MaxBackupCalls

\* c2 = c1.copy(): the copy has the backed up states of c1
BackedUpCopy ==
    /\ call.method = "backupState" /\ call.live = {1}
    /\ call' = [call EXCEPT !.heap = ContextCopy(call.heap, 1), !.live = {1, 2},
                            !.found[2] = call.found[1], !.restored = None]
    /\ UNCHANGED <<treeVars, lastOp, tokenVars, context, tokens, spans, running,
                   latexSyntax>>

\* c.backupState()
StateBackup ==
    /\ BackupCallable
    /\ \E c \in call.live :
           call' = [call EXCEPT
                       !.heap = HeapBackupState(call.heap, c),
                       !.found[c] = Append(@,
                           [state |-> ContextValue(call.heap, c).state,
                            depth |-> Len(ContextValue(call.heap, c).stateStack)]),
                       !.deepest = IF Len(call.found[c]) + 1 > @
                                   THEN Len(call.found[c]) + 1 ELSE @,
                       !.restored = None, !.calls = @ + 1]
    /\ UNCHANGED <<treeVars, lastOp, tokenVars, context, tokens, spans, running,
                   latexSyntax>>

\* c.restoreState(): the call keeps what the backupState that it restores
\* found, if there is one
StateRestore ==
    /\ BackupCallable
    /\ \E c \in call.live :
           call' = [call EXCEPT
                       !.heap = HeapRestoreState(call.heap, c),
                       !.found[c] = SubSeq(@, 1, Len(@) - 1),
                       !.restored =
                           IF call.found[c] = <<>> THEN None
                           ELSE Some([context |-> c,
                                      found |-> call.found[c][Len(call.found[c])]]),
                       !.calls = @ + 1]
    /\ UNCHANGED <<treeVars, lastOp, tokenVars, context, tokens, spans, running,
                   latexSyntax>>

\* c.updateState([operation]) for an operation on a mode
ModeUpdate ==
    /\ BackupCallable
    /\ \E c \in call.live : \E operation \in ModeOperations :
           call' = [call EXCEPT
                       !.heap = HeapUpdateState(call.heap, c, <<operation>>).heap,
                       !.restored = None, !.calls = @ + 1]
    /\ UNCHANGED <<treeVars, lastOp, tokenVars, context, tokens, spans, running,
                   latexSyntax>>

NextBackup ==
    \/ BackupContext
    \/ BackedUpCopy
    \/ StateBackup
    \/ StateRestore
    \/ ModeUpdate

SpecBackup == Init /\ [][NextBackup]_vars

\* C34: a restoreState that follows a backupState, mode updates and
\* balanced pairs of backupState and restoreState between them, leaves the
\* mode states as that backupState found them and the state stack as deep
\* as it found it; and the states backed up and not yet restored are at any
\* time what they were when they were backed up, whatever was updated
\* since, in the context or in a copy of it.
C34_RestoreGivesBackedUp ==
    call.method = "backupState" =>
        /\ call.restored # None =>
              LET restored == ContextValue(call.heap, call.restored[1].context)
              IN  /\ restored.state = call.restored[1].found.state
                  /\ Len(restored.stateStack) = call.restored[1].found.depth
        /\ \A c \in call.live :
              /\ Len(ContextValue(call.heap, c).stateStack) = Len(call.found[c])
              /\ \A i \in 1 .. Len(call.found[c]) :
                    ContextValue(call.heap, c).stateStack[i] = call.found[c][i].state

\* a backupState and a restoreState were called between a backupState and
\* its restoreState, which is the last call; the first backupState found
\* mode states that were updated before and an empty stack
C34_Witness ==
    /\ call.method = "backupState"
    /\ call.restored # None
    /\ call.restored[1].found.depth = 0
    /\ call.restored[1].found.state # InitialModeStates
    /\ call.deepest = 2
    /\ call.calls = MaxBackupCalls

\* the mode states were updated in a copy of the context, and a state was
\* backed up in the copy, between a backupState of the context and its
\* restoreState
RestoredAfterCopyUpdated ==
    /\ call.method = "backupState"
    /\ call.restored # None
    /\ call.restored[1].context = 1
    /\ call.restored[1].found.depth = 0
    /\ call.live = {1, 2}
    /\ ContextValue(call.heap, 2).state # call.restored[1].found.state
    /\ Len(ContextValue(call.heap, 2).stateStack) = 2

\* ------------------------------------------------------------------------
\* updateState for a list that holds END GROUP
\* ------------------------------------------------------------------------
\* the places of a list that hold END GROUP, and those that hold an
\* operation on a mode
GroupEnds(operations) ==
    {i \in 1 .. Len(operations) : operations[i] = EndGroup}

ModePlaces(operations) ==
    {i \in 1 .. Len(operations) : operations[i].operand # "GROUP"}

\* the operations of the places of a set, in the order of the list
OperationsAt(operations, places) ==
    [k \in 1 .. Cardinality(places) |->
        operations[CHOOSE i \in places : Cardinality({j \in places : j < i}) = k - 1]]

\* the mode operations of a list whose next GROUP operation is an END GROUP
DroppedPlaces(operations) ==
    {i \in ModePlaces(operations) :
        \E e \in GroupEnds(operations) :
            /\ i < e
            /\ \A j \in i + 1 .. e - 1 : operations[j].operand # "GROUP"}

\* the END GROUP operations of a list that find a backed up state when
\* updateState is called for a context
FoundBackedUp(ctx, operations) ==
    {e \in GroupEnds(operations) :
        UpdateState(ctx, SubSeq(operations, 1, e - 1)).stateStack # <<>>}

\* the mode states that the last END GROUP of a list leaves: the state it
\* pops, or, when nothing is backed up, the mode states as they are then
\* (the mode operations since the last GROUP operation are not yet stored)
AfterLastEndGroup(ctx, operations) ==
    LET last == SetMax(GroupEnds(operations))
        before == UpdateState(ctx, SubSeq(operations, 1, last - 1))
        stored == UpdateState(ctx,
                      SubSeq(operations, 1,
                             SetMax({0} \cup {j \in 1 .. last - 1 :
                                                 operations[j].operand = "GROUP"})))
    IN  IF before.stateStack # <<>> THEN before.stateStack[Len(before.stateStack)]
        ELSE stored.state

\* the mode states after the call are those the last END GROUP left with
\* the mode operations that follow it, and the depth of the stack has
\* changed by the number of BEGIN GROUP less the number of END GROUP that
\* found a backed up state
FlagsAfterLastEndGroup ==
    LET last == SetMax(GroupEnds(call.operations))
        following == SubSeq(call.operations, last + 1, Len(call.operations))
    IN  /\ call.updated.state =
               WithChanges(AfterLastEndGroup(call.context, call.operations),
                           following, Len(following))
        /\ Len(call.updated.stateStack) - Len(call.context.stateStack) =
               Cardinality(GroupBegins(call.operations))
               - Cardinality(FoundBackedUp(call.context, call.operations))

\* C35 as stated: in one updateState call the mode operations that precede
\* an END GROUP of the list have no effect on the resulting mode states
\* (the call for the list without them leaves the same mode states); the
\* mode states after the call are the popped state, or the unchanged ones
\* when nothing was backed up, with the mode operations that follow the
\* last END GROUP, and the depth of the stack changes by the number of
\* BEGIN GROUP less the number of END GROUP that found a backed up state.
C35_FlagsBeforeEndGroup ==
    (call.method = "updateState" /\ GroupEnds(call.operations) # {}) =>
        /\ FlagsAfterLastEndGroup
        /\ UpdateState(call.context,
               OperationsAt(call.operations,
                   {i \in 1 .. Len(call.operations) :
                       \/ i \notin ModePlaces(call.operations)
                       \/ i > SetMax(GroupEnds(call.operations))})).state
           = call.updated.state

\* C35, amended: the mode operations whose next GROUP operation in the list
\* is an END GROUP have no effect (the call for the list without them
\* leaves the same mode states and the same stack); a mode operation that a
\* BEGIN GROUP follows before the END GROUP is stored and backed up, and is
\* in the state that the END GROUP pops.  The mode states after the call
\* are those the last END GROUP left (the popped state, or the mode states
\* as they were then when nothing was backed up) with the mode operations
\* that follow it, and the depth changes as stated.
C35_DroppedBeforeEndGroup ==
    (call.method = "updateState" /\ GroupEnds(call.operations) # {}) =>
        /\ FlagsAfterLastEndGroup
        /\ LET without == UpdateState(call.context,
                              OperationsAt(call.operations,
                                  (1 .. Len(call.operations))
                                  \ DroppedPlaces(call.operations)))
           IN  /\ without.state = call.updated.state
               /\ without.stateStack = call.updated.stateStack

\* the call was made, for a context with a backed up state, for a mode
\* operation, END GROUP and another mode operation
C35_Witness ==
    /\ call.method = "updateState"
    /\ call.context.stateStack # <<>>
    /\ call.operations = << [directive |-> "END", operand |-> "TEXT"], EndGroup,
                            [directive |-> "BEGIN", operand |-> "MATH"] >>
    /\ call.updated.state # call.context.state

\* ------------------------------------------------------------------------
\* A removal followed by the insertion that puts the node back, and an
\* insertion followed by the removal of the inserted node.  The call keeps
\* the child lists, parents and sizes as they were before the first of the
\* two calls, and the place the node was a child at.
\* ------------------------------------------------------------------------
\* the trees are built by insertions first
BuildByChildNode == call = NoCall /\ InsertChildNode

BuildByChildSubtree == call = NoCall /\ InsertChildSubtree

\* self.removeChildSubtree(x), for a child given as a node or as an index
RemoveSubtreeFirst ==
    /\ call = NoCall
    /\ \E self \in Nodes, node \in Nodes \cup {Null}, index \in IndexArgs \cup {Undefined} :
          /\ (node = Null) # (index = Undefined)
          /\ ChildIndexOf(self, node, index) # Undefined
          /\ RemoveChildSubtreeCall(self, node, index)
          /\ call' = [method |-> "removeChildSubtree", at |-> "removed",
                      children |-> children, parent |-> parent,
                      subtreeSize |-> subtreeSize,
                      childIndex |-> ChildIndexOf(self, node, index)]
    /\ UNCHANGED <<tokenVars, context, tokens, spans, running, latexSyntax>>

\* self.insertChildSubtree(x, i) for the receiver of the removal, the node
\* it returned and the place the node had
InsertSubtreeBack ==
    /\ call.method = "removeChildSubtree"
    /\ call.at = "removed"
    /\ InsertChildSubtreeCall(lastOp.self, lastOp.ret, call.childIndex)
    /\ call' = [call EXCEPT !.at = "inserted"]
    /\ UNCHANGED <<tokenVars, context, tokens, spans, running, latexSyntax>>

\* self.insertChildNode(n, i, k) that is accepted
InsertNodeFirst ==
    /\ call = NoCall
    /\ \E self \in Nodes, node \in Nodes :
       \E childIndex \in IndexArgs \cup {Undefined},
          childNodesToCover \in IndexArgs \cup {Undefined} :
          /\ ~InsertChildNodeRejects(node)
          /\ InsertChildNodeCall(self, node, childIndex, childNodesToCover)
          /\ call' = [method |-> "insertChildNode", at |-> "inserted",
                      children |-> children, parent |-> parent,
                      subtreeSize |-> subtreeSize,
                      childIndex |-> childIndex]
    /\ UNCHANGED <<tokenVars, context, tokens, spans, running, latexSyntax>>

\* self.removeChildNode(n) for the receiver of the insertion and the node
\* that was inserted
RemoveNodeBack ==
    /\ call.method = "insertChildNode"
    /\ call.at = "inserted"
    /\ RemoveChildNodeCall(lastOp.self, lastOp.node, Undefined)
    /\ call' = [call EXCEPT !.at = "removed"]
    /\ UNCHANGED <<tokenVars, context, tokens, spans, running, latexSyntax>>

NextUndo ==
    \/ BuildByChildNode
    \/ BuildByChildSubtree
    \/ RemoveSubtreeFirst
    \/ InsertSubtreeBack
    \/ InsertNodeFirst
    \/ RemoveNodeBack

SpecUndo == Init /\ [][NextUndo]_vars

\* the child lists, parents and sizes are those the call has kept
AsBefore ==
    /\ children = call.children
    /\ parent = call.parent
    /\ subtreeSize = call.subtreeSize

\* C36: removeChildSubtree(x) for a child x at the place i removes x with
\* all its descendants and promotes none of them (x keeps its child list
\* and its subtreeSize and has no parent, its descendants keep theirs), and
\* insertChildSubtree(x, i) on the same receiver then restores every child
\* list, parent and subtreeSize; insertChildNode(n, i, k) followed by
\* removeChildNode(n) restores them as well.
C36_RemovalAndInsertionUndone ==
    /\ (call.method = "removeChildSubtree" /\ call.at = "removed") =>
           /\ lastOp.result = "node"
           /\ call.children[lastOp.self][call.childIndex + 1] = lastOp.ret
           /\ parent[lastOp.ret] = Null
           /\ children[lastOp.ret] = call.children[lastOp.ret]
           /\ subtreeSize[lastOp.ret] = call.subtreeSize[lastOp.ret]
           /\ \A n \in Nodes \ {lastOp.self} : children[n] = call.children[n]
           /\ \A n \in Nodes \ {lastOp.ret} : parent[n] = call.parent[n]
           /\ \A j \in 1 .. Len(children[lastOp.self]) :
                  children[lastOp.self][j] \in SeqRange(call.children[lastOp.self])
    /\ (call.method = "removeChildSubtree" /\ call.at = "inserted") =>
           lastOp.result = "ok" /\ AsBefore
    /\ (call.method = "insertChildNode" /\ call.at = "removed") =>
           lastOp.result = "node" /\ AsBefore

\* a node with a child was removed, with its child, and was inserted back
C36_Witness ==
    /\ call.method = "removeChildSubtree"
    /\ call.at = "inserted"
    /\ children[lastOp.node] # <<>>
    /\ parent[lastOp.node] = lastOp.self
    /\ subtreeSize[lastOp.self] = 3

\* a node was inserted that covered a child, and was removed
InsertedNodeRemoved ==
    /\ call.method = "insertChildNode"
    /\ call.at = "removed"
    /\ lastOp.moved = 1
    /\ subtreeSize[lastOp.self] = 2

\* C37: after any sequence of accepted insertChildNode and
\* insertChildSubtree calls the parent relation has no cycle: no node is
\* its own parent or ancestor, the walk along the parents from any node
\* reaches a node without a parent.
C37_ParentRelationAcyclic ==
    \A n \in Nodes : WalkEnds(parent, n, MaxNodes)

\* what holds instead: a step closes a cycle of parents only if it is an
\* accepted insertion of the receiver itself or of one of its ancestors
CycleOnlyByInsertionBelow ==
    [][(/\ \A n \in Nodes : WalkEnds(parent, n, MaxNodes)
        /\ \E n \in Nodes : ~WalkEnds(parent', n, MaxNodes))
       => /\ lastOp'.op \in {"insertChildNode", "insertChildSubtree"}
          /\ lastOp'.result = "ok"
          /\ lastOp'.node \in WalkSet(parent, lastOp'.self, MaxNodes)]_vars

\* ------------------------------------------------------------------------
\* Tree.enumerateNodes, asked for every list.  A JavaScript array is kept as
\* a function on the indices that were assigned; the other indices of
\* "new Array(size + 1)" are holes, which read as undefined.
\* ------------------------------------------------------------------------
ArraySet(array, k, v) ==
    [i \in DOMAIN array \cup {k} |-> IF i = k THEN v ELSE array[i]]

ArrayGet(array, k) == IF k \in DOMAIN array THEN array[k] ELSE Undefined

FirstChildIndexLastChild(iNode, node) == iNode - 1

\* iNode - node.subtreeSize + node._childNodes[0].subtreeSize: the index the
\* first child node was given
FirstChildIndex(iNode, node) ==
    iNode - subtreeSize[node] + subtreeSize[children[node][1]]

RECURSIVE EnumerateSubtree(_, _, _)
RECURSIVE EnumerateSubtrees(_, _, _)
\* node._childNodes.forEach(enumerateSubtree)
EnumerateSubtrees(found, list, fuel) ==
    IF list = <<>> THEN found
    ELSE EnumerateSubtrees(EnumerateSubtree(found, Head(list), fuel), Tail(list), fuel)

\* enumerateSubtree(node); "found" holds iNode and the lists so far.  The
\* recursion does not end on child lists that close a cycle (status
\* "endless"), and reading the first child of a node that has none, though
\* its subtreeSize is above 1, raises a TypeError.
EnumerateSubtree(found, node, fuel) ==
    IF found.status # "ok" THEN found
    ELSE IF fuel = 0 THEN [found EXCEPT !.status = "endless"]
    ELSE IF subtreeSize[node] > 1
    THEN Bind(EnumerateSubtrees(found, children[node], fuel - 1), LAMBDA below :
         IF below.status # "ok" THEN below
         ELSE IF children[node] = <<>> THEN [below EXCEPT !.status = "TypeError"]
         ELSE Bind(below.iNode + 1, LAMBDA iNode :
              [status |-> "ok",
               iNode |-> iNode,
               nodes |-> ArraySet(below.nodes, iNode, node),
               mostLeftChildNodeIndices |->
                   ArraySet(below.mostLeftChildNodeIndices, iNode,
                            ArrayGet(below.mostLeftChildNodeIndices,
                                     FirstChildIndex(iNode, node))),
               keyRootIndices |->
                   IF IsKeyRoot(node) THEN Append(below.keyRootIndices, iNode)
                   ELSE below.keyRootIndices]))
    ELSE Bind(found.iNode + 1, LAMBDA iNode :
         [status |-> "ok",
          iNode |-> iNode,
          nodes |-> ArraySet(found.nodes, iNode, node),
          mostLeftChildNodeIndices |->
              ArraySet(found.mostLeftChildNodeIndices, iNode, iNode),
          keyRootIndices |->
              IF IsKeyRoot(node) THEN Append(found.keyRootIndices, iNode)
              ELSE found.keyRootIndices])

\* tree.enumerateNodes(parameters) of the tree of a root: what it returns is
\* kept in "call".  A call whose recursion does not end never returns.
EnumerateNodesCall(root) ==
    /\ root \in treeRoot
    /\ Bind(EnumerateSubtree([status |-> "ok",
                              iNode |-> 0,
                              nodes |-> [i \in {0} |-> Null],
                              mostLeftChildNodeIndices |-> [i \in {0} |-> 0],
                              keyRootIndices |-> <<>>],
                             root, MaxNodes + 1), LAMBDA found :
        /\ found.status # "endless"
        /\ call' = [method |-> "enumerateNodes", root |-> root,
                    size |-> subtreeSize[root], found |-> found]
        /\ lastOp' = Call("enumerateNodes", Null, root, Undefined, Undefined,
                          found.status, Null, 0))
    /\ UNCHANGED <<treeVars, tokenVars, context, tokens, spans, running, latexSyntax>>

EnumerateNodes == \E root \in Nodes : EnumerateNodesCall(root)

\* the insertions, trees made of some roots, and their enumeration
NextEnumerate ==
    \/ NewTree
    \/ InsertChildNode
    \/ InsertChildSubtree
    \/ EnumerateNodes

SpecEnumerate == Init /\ [][NextEnumerate]_vars

RECURSIVE Below(_, _)
\* a node and its descendants, by the child lists
Below(n, fuel) ==
    IF fuel = 0 THEN {n}
    ELSE {n} \cup UNION { Below(c, fuel - 1) : c \in SeqRange(children[n]) }

RECURSIVE LeftMostLeaf(_, _)
\* the leaf the first-child links lead to
LeftMostLeaf(n, fuel) ==
    IF children[n] = <<>> \/ fuel = 0 THEN n
    ELSE LeftMostLeaf(children[n][1], fuel - 1)

\* an enumeration has just returned: no operation has changed the tree since
Enumerated == call.method = "enumerateNodes" /\ lastOp.op = "enumerateNodes"

\* the index the enumeration gave a node
IndexOfNode(n) ==
    CHOOSE i \in DOMAIN call.found.nodes : call.found.nodes[i] = n

\* C38: enumerateNodes numbers the nodes of a tree 1..size in post-order:
\* index 0 holds the empty node, the root gets index size, every node's index
\* is above the indices of its descendants, and siblings are numbered left to
\* right; mostLeftChildNodeIndices[i] is the index of the left-most leaf of
\* the subtree of node i; keyRootIndices lists, ascending, exactly the indices
\* of the key roots, and there are as many of them as leaves.
C38_PostOrderEnumeration ==
    Enumerated =>
        LET found == call.found
            nodes == found.nodes
            size == call.size
            inTree == Below(call.root, MaxNodes)
            keyRootIndices == found.keyRootIndices
        IN  /\ found.status = "ok"
            /\ DOMAIN nodes = 0 .. size
            /\ nodes[0] = Null
            /\ { nodes[i] : i \in 1 .. size } = inTree
            /\ Cardinality(inTree) = size
            /\ nodes[size] = call.root
            /\ \A i \in 1 .. size, j \in 1 .. size :
                   (i # j /\ nodes[j] \in Below(nodes[i], MaxNodes)) => j < i
            /\ \A n \in inTree : \A a \in 1 .. Len(children[n]), b \in 1 .. Len(children[n]) :
                   a < b => IndexOfNode(children[n][a]) < IndexOfNode(children[n][b])
            /\ DOMAIN found.mostLeftChildNodeIndices = 0 .. size
            /\ \A i \in 1 .. size :
                   found.mostLeftChildNodeIndices[i]
                       = IndexOfNode(LeftMostLeaf(nodes[i], MaxNodes))
            /\ \A a \in 1 .. Len(keyRootIndices), b \in 1 .. Len(keyRootIndices) :
                   a < b => keyRootIndices[a] < keyRootIndices[b]
            /\ SeqRange(keyRootIndices) = { i \in 1 .. size : IsKeyRoot(nodes[i]) }
            /\ Len(keyRootIndices)
                   = Cardinality({ n \in inTree : children[n] = <<>> })

\* an enumerated tree whose root has two children, the first of them a leaf
\* and not a key root
C38_Witness ==
    /\ Enumerated
    /\ call.found.status = "ok"
    /\ Len(children[call.root]) = 2
    /\ call.found.mostLeftChildNodeIndices[call.size] = 1
    /\ call.found.keyRootIndices = <<2, 3>>

\* an enumerated chain: a root over a node over a leaf, with one key root
C38_WitnessChain ==
    /\ Enumerated
    /\ call.size = 3
    /\ Len(children[call.root]) = 1
    /\ call.found.keyRootIndices = <<3>>

\* ------------------------------------------------------------------------
\* The spans of the child tokens within their parent token
\* ------------------------------------------------------------------------
RECURSIVE ChildrenWithin(_)
\* in a token and below it: every child has a shift and a length that are
\* not negative, and the children of a token of defined length take, shifts
\* included, no more than that length
ChildrenWithin(token) ==
    /\ \A k \in 1 .. Len(token.childNodes) :
           /\ token.childNodes[k].sourceShift >= 0
           /\ token.childNodes[k].sourceLength >= 0
           /\ ChildrenWithin(token.childNodes[k])
    /\ token.sourceLength # Undefined =>
           TokensSpan(token.childNodes) <= token.sourceLength

RECURSIVE TokenDepth(_)
\* the number of levels of a token tree
TokenDepth(token) ==
    IF token.childNodes = <<>> THEN 1
    ELSE 1 + TokenDepth(token.childNodes[1])

\* C39: in every token tree that a parse builds, the children of a token lie
\* inside the span of the token one after another: the sum over the children
\* of sourceShift + sourceLength is at most the sourceLength of the token,
\* also for a token built after a candidate was rolled back.
C39_ChildrenWithinParent ==
    \A k \in 1 .. Len(tokens) : ChildrenWithin(tokens[k])

\* the command token of "\a[]": the first command of the name parsed a
\* parameter up to "]" and then found no second one; the token is built by
\* the second command of the name after the rollback, and its parameter
\* begins behind the name and ends with the token
C39_Witness ==
    /\ tokens # <<>>
    /\ StartsWith(context.source, <<"\\", "a", "[", "]">>, 0)
    /\ tokens[1].class = "CommandToken"
    /\ tokens[1].properties.symbol # None
    /\ Len(tokens[1].properties.symbol[1].patternComponents) = 1
    /\ Len(tokens[1].childNodes) = 1
    /\ tokens[1].childNodes[1].sourceShift = 2
    /\ tokens[1].childNodes[1].childNodes # <<>>
    /\ TokensSpan(tokens[1].childNodes) = tokens[1].sourceLength

\* an environment token with its three children, the body with a child of
\* its own, the end command behind "\end{d}"
C39_WitnessEnvironment ==
    \E k \in 1 .. Len(tokens) :
        /\ Len(tokens[k].childNodes) = 3
        /\ tokens[k].childNodes[2].childNodes # <<>>
        /\ tokens[k].childNodes[3].sourceShift > 0
        /\ TokensSpan(tokens[k].childNodes) = tokens[k].sourceLength

RECURSIVE EndsBehindChildren(_)
\* a token, or one below it, has children and ends behind the last of them
EndsBehindChildren(token) ==
    \/ /\ token.childNodes # <<>>
       /\ TokensSpan(token.childNodes) < token.sourceLength
    \/ \E k \in 1 .. Len(token.childNodes) : EndsBehindChildren(token.childNodes[k])

\* a token of three levels in which a token ends behind its last child
C39_WitnessNested ==
    \E k \in 1 .. Len(tokens) :
        /\ TokenDepth(tokens[k]) >= 3
        /\ EndsBehindChildren(tokens[k])
====
